---- MODULE Spec2Model ----
(***************************************************************************)
(* The secure-session controller of go-secret (internal/ui/model.go): the  *)
(* Bubble Tea Model, its Update function and the tasks and timers it       *)
(* emits.  Update is a function from (Model, message) to (Model, commands) *)
(* and is modelled as such: every handler is an operator from the model    *)
(* record to a result record, and one action applies Update to one         *)
(* message.  Commands run outside the controller; their completions come   *)
(* back as messages in any order.                                          *)
(*                                                                         *)
(* What is abstracted.  Text inputs, cursors and the create form's focus   *)
(* and mode are not state here: every value of them can be produced by     *)
(* keys that change nothing else the model keeps, so a handler that reads  *)
(* one of them receives it as an input (the record inp).  The status line  *)
(* is write-only in Update and is kept as an output of the step.  The      *)
(* cursor-blink command of the text inputs is not a task of the model.     *)
(***************************************************************************)
EXTENDS Integers, Sequences, FiniteSets, TLC

\* ---------------------------------------------------------------- bounds
\* The clock takes the instants 60*b + a seconds, a <= MaxSmallSteps and
\* b <= MaxBigSteps.
MaxSmallSteps == 1
MaxBigSteps == 1
\* Remote tasks of one kind in flight at once, and timer or clipboard tasks
\* (or their messages) of one kind in flight at once.
MaxRemote == 1
MaxTimers == 2
\* Length of a versions list returned by the store.
MaxVersions == 1
\* Key and pointer events of one run.
MaxEvents == 4
\* The audit log on its own: clock ticks to the second, calls of Log in one
\* run, ticks and days the clock moves on, cleanup goroutines in flight.
TicksPerSecond == 2
MaxLogCalls == 3
MaxAuditTicks == 2
MaxAuditDays == 2
MaxSweeps == 1
MaxSecrets == 3
MaxTreeKeys == 3
MaxLoads == 2
MaxItems == 7
MaxDepth == 1

\* ------------------------------------------------------ program constants
Second == 1
Minute == 60

Views ==
  {"ViewProjectPrompt", "ViewList", "ViewDetail", "ViewCreate", "ViewAddVersion",
   "ViewDelete", "ViewGenerate", "ViewConfig", "ViewConfigMenu", "ViewConfigBasic",
   "ViewConfigTemplates", "ViewConfigTemplateEdit", "ViewConfigRecentProjects",
   "ViewConfigSecurity", "ViewAuditLog", "ViewFilter", "ViewReveal",
   "ViewProjectSwitch", "ViewLocked"}

\* The keys the user presses, named as tea.KeyMsg.String() names them: one
\* key of every group the handlers treat alike in every view ("x" is any
\* rune that no handler binds; the cursor and focus keys move what is an
\* input here).
Keys ==
  {"ctrl+c", "ctrl+p", "ctrl+r", "ctrl+s", "enter", " ", "esc", "backspace",
   "a", "c", "d", "g", "h", "n", "q", "r", "y", "/", "x"}

\* Every key name a handler tests for, and "x".
KeyNames ==
  Keys \cup {"ctrl+e", "tab", "shift+tab", "up", "down", "left", "right",
             "e", "G", "j", "k", "l"}

SecretNames == {"s1"}
\* Secret payloads the store may return: an empty one and a non-empty one.
Payloads == {<<>>, <<7>>}
Texts == {"", "t"}

\* An optional value: <<>> is nil, <<v>> holds v.
None == <<>>
Some(v) == <<v>>

\* ------------------------------------------------------------- the state
VARIABLES
  m,          \* the Model value threaded through Update
  now,        \* wall clock, seconds
  pending,    \* tasks emitted and not yet run, messages not yet handled
  clipboard,  \* what the system clipboard holds
  halted,     \* "run", "quit" (tea.Quit) or "panic" (a nil dereference)
  events,     \* key and pointer events handled so far
  lastCopy,   \* the most recent successful copy: when, and under which settings
  au,         \* the audit Logger, its log directory and the clock it reads
  tr,         \* the secret list, its folder tree and the list view over it
  sc,         \* the list view's cursor, scroll offset and window height
  vs          \* the version list of the detail view and its cursor

\* The variables of the terminal program, and those of the components that
\* are exercised on their own.
uiVars == <<m, now, pending, clipboard, halted, events, lastCopy>>
libVars == <<au, tr, sc, vs>>
vars == <<uiVars, libVars>>

\* ------------------------------------------------ messages and commands
TaskKinds ==
  {"initializeClient", "loadSecrets", "loadVersions", "accessSecretVersion",
   "createSecret", "deleteSecret", "addVersion", "copySecretValue",
   "secretCopiedMsg.ok", "secretCopiedMsg.err",
   "clipboardTickCmd", "clearClipboardCmd", "clipboardClearMsg",
   "sessionTimeoutTickCmd"}

RemoteKinds ==
  {"initializeClient", "loadSecrets", "loadVersions", "accessSecretVersion",
   "createSecret", "deleteSecret", "addVersion", "copySecretValue",
   "secretCopiedMsg.ok", "secretCopiedMsg.err"}

MaxPending(kind) == IF kind \in RemoteKinds THEN MaxRemote ELSE MaxTimers

Cmd(kind, name) == [kind |-> kind, name |-> name]

DefaultInp ==
  [text |-> "", opt |-> 0, item |-> "none", mode |-> "form", sel |-> "none",
   ioErr |-> FALSE]

Msg(type) ==
  [type |-> type, key |-> "", inp |-> DefaultInp, err |-> FALSE, name |-> "",
   value |-> <<>>, n |-> 0, secrets |-> {}]

\* What Update returns: the model, the commands of the returned tea.Cmd, and
\* the effects of the calls it made on the way: audit events written, a
\* synchronous clipboard write, buffers released (with the bytes they held
\* when released), the status line set, and whether it quit or panicked.
Ret(mm) ==
  [m |-> mm, cmds |-> <<>>, log |-> <<>>, clip |-> "keep", halt |-> "run",
   freed |-> <<>>, status |-> ""]

Quit(mm) == [Ret(mm) EXCEPT !.cmds = <<Cmd("tea.Quit", "")>>, !.halt = "quit"]
Panic(mm) == [Ret(mm) EXCEPT !.halt = "panic"]

\* ---------------------------------------------------------- audit logger
\* m.auditLogger is "nil", or a Logger that is "enabled" (open file) or
\* "disabled".  Log writes the event only through an enabled logger.
Log(logger, event) == IF logger = "enabled" THEN <<event>> ELSE <<>>

LogSecretList(l, result) == Log(l, [type |-> "SECRET_LIST", result |-> result])
LogSecretReveal(l, result) == Log(l, [type |-> "SECRET_REVEAL", result |-> result])
LogSecretCopy(l, result) == Log(l, [type |-> "SECRET_COPY", result |-> result])
LogSecretCreate(l, result) == Log(l, [type |-> "SECRET_CREATE", result |-> result])
LogSecretDelete(l, result) == Log(l, [type |-> "SECRET_DELETE", result |-> result])
LogVersionAdd(l, result) == Log(l, [type |-> "VERSION_ADD", result |-> result])
LogConfigChange(l) == Log(l, [type |-> "CONFIG_CHANGE", result |-> "SUCCESS"])
LogProjectSwitch(l) == Log(l, [type |-> "PROJECT_SWITCH", result |-> "SUCCESS"])
LogSessionStart(l) == Log(l, [type |-> "SESSION_START", result |-> "SUCCESS"])
LogClipboardClear(l) == Log(l, [type |-> "CLIPBOARD_CLEAR", result |-> "SUCCESS"])
LogSessionLock(l) == Log(l, [type |-> "SESSION_LOCK", result |-> "SUCCESS"])
LogSessionUnlock(l) == Log(l, [type |-> "SESSION_UNLOCK", result |-> "SUCCESS"])

\* NewLogger: nil on an I/O error, else a logger enabled as configured.
NewLogger(enabled, ioErr) ==
  IF ~enabled THEN "disabled" ELSE IF ioErr THEN "nil" ELSE "enabled"

\* ---------------------------------------------------------------- vault
Zeroed(buf) == [i \in 1..Len(buf) |-> 0]

\* The clear that drops the reference without zeroing the buffer.
clearRevealedValueDropsOnly(mm) ==
  IF mm.revealedValue # None
    THEN [m |-> [mm EXCEPT !.revealedValue = None],
          freed |-> <<mm.revealedValue[1]>>]
    ELSE [m |-> mm, freed |-> <<>>]

\* clearRevealedValue: zero every byte, then drop the reference.
clearRevealedValue(mm) ==
  IF mm.revealedValue # None
    THEN [m |-> [mm EXCEPT !.revealedValue = None],
          freed |-> <<Zeroed(mm.revealedValue[1])>>]
    ELSE [m |-> mm, freed |-> <<>>]

\* setRevealedValue: clear the old value, then hold a copy of the new one.
setRevealedValue(mm, value) ==
  LET c == clearRevealedValue(mm)
  IN [m |-> [c.m EXCEPT !.revealedValue = Some(value)], freed |-> c.freed]

getRevealedValueString(mm) ==
  IF mm.revealedValue = None THEN <<>> ELSE mm.revealedValue[1]

\* ------------------------------------------------- completion messages
\* case clientInitializedMsg
onClientInitialized(mm, msg) ==
  IF msg.err
    THEN [Ret([mm EXCEPT !.loading = FALSE]) EXCEPT !.status = "Error"]
    ELSE [Ret([mm EXCEPT !.loading = TRUE]) EXCEPT
            !.log = LogSessionStart(mm.auditLogger),
            !.cmds = <<Cmd("loadSecrets", "")>>]

\* case secretsLoadedMsg (the folder tree and the displayed items are rebuilt
\* from m.secrets; the list view draws its items from m.secrets)
onSecretsLoaded(mm, msg) ==
  LET m1 == [mm EXCEPT !.loading = FALSE]
  IN IF msg.err
       THEN [Ret(m1) EXCEPT !.status = "Error loading secrets",
                            !.log = LogSecretList(mm.auditLogger, "FAILURE")]
       ELSE [Ret([m1 EXCEPT !.secrets = msg.secrets]) EXCEPT
               !.status = "Loaded secrets",
               !.log = LogSecretList(mm.auditLogger, "SUCCESS")]

\* The versions completion that empties the version list on an error.
onVersionsLoadedDropsOnError(mm, msg) ==
  LET m1 == [mm EXCEPT !.loading = FALSE]
  IN IF msg.err
       THEN [Ret([m1 EXCEPT !.versions = 0]) EXCEPT !.status = "Error loading versions"]
       ELSE Ret([m1 EXCEPT !.versions = msg.n])

\* The versions completion that is dropped outside the detail view.
onVersionsLoadedInDetailOnly(mm, msg) ==
  LET m1 == [mm EXCEPT !.loading = FALSE]
  IN IF msg.err
       THEN [Ret(m1) EXCEPT !.status = "Error loading versions"]
       ELSE IF mm.view = "ViewDetail" THEN Ret([m1 EXCEPT !.versions = msg.n])
       ELSE Ret(m1)

\* case versionsLoadedMsg
onVersionsLoaded(mm, msg) ==
  LET m1 == [mm EXCEPT !.loading = FALSE]
  IN IF msg.err
       THEN [Ret(m1) EXCEPT !.status = "Error loading versions"]
       ELSE Ret([m1 EXCEPT !.versions = msg.n])

\* case secretCreatedMsg
onSecretCreated(mm, msg) ==
  LET m1 == [mm EXCEPT !.loading = FALSE]
  IN IF msg.err
       THEN [Ret(m1) EXCEPT !.status = "Error creating secret",
                            !.log = LogSecretCreate(mm.auditLogger, "FAILURE")]
       ELSE [Ret([m1 EXCEPT !.view = "ViewList"]) EXCEPT
               !.status = "Secret created successfully",
               !.log = LogSecretCreate(mm.auditLogger, "SUCCESS"),
               !.cmds = <<Cmd("loadSecrets", "")>>]

\* case secretDeletedMsg
onSecretDeleted(mm, msg) ==
  LET m1 == [mm EXCEPT !.loading = FALSE]
  IN IF msg.err
       THEN [Ret(m1) EXCEPT !.status = "Error deleting secret",
                            !.log = LogSecretDelete(mm.auditLogger, "FAILURE")]
       ELSE [Ret([m1 EXCEPT !.view = "ViewList", !.selectedSecret = None]) EXCEPT
               !.status = "Secret deleted successfully",
               !.log = LogSecretDelete(mm.auditLogger, "SUCCESS"),
               !.cmds = <<Cmd("loadSecrets", "")>>]

\* case versionAddedMsg: the success path reads m.selectedSecret.Name
\* unguarded when it builds the reload command.
onVersionAdded(mm, msg) ==
  LET m1 == [mm EXCEPT !.loading = FALSE]
      lg(result) == IF mm.selectedSecret # None
                      THEN LogVersionAdd(mm.auditLogger, result) ELSE <<>>
  IN IF msg.err
       THEN [Ret(m1) EXCEPT !.status = "Error adding version", !.log = lg("FAILURE")]
       ELSE IF mm.selectedSecret = None
         THEN [Panic(mm) EXCEPT !.log = lg("SUCCESS")]
         ELSE [Ret([m1 EXCEPT !.view = "ViewDetail"]) EXCEPT
                 !.status = "Version added successfully",
                 !.log = lg("SUCCESS"),
                 !.cmds = <<Cmd("loadVersions", mm.selectedSecret[1])>>]

\* The value completion that shows the reveal view without storing the value.
onSecretValueShowsOnly(mm, msg) ==
  LET m1 == [mm EXCEPT !.loading = FALSE]
  IN IF msg.err
       THEN [Ret(m1) EXCEPT !.status = "Error accessing secret",
                            !.log = LogSecretReveal(mm.auditLogger, "FAILURE")]
       ELSE [Ret([m1 EXCEPT !.view = "ViewReveal"]) EXCEPT
               !.log = LogSecretReveal(mm.auditLogger, "SUCCESS")]

\* case secretValueMsg
onSecretValue(mm, msg) ==
  LET m1 == [mm EXCEPT !.loading = FALSE]
  IN IF msg.err
       THEN [Ret(m1) EXCEPT !.status = "Error accessing secret",
                            !.log = LogSecretReveal(mm.auditLogger, "FAILURE")]
       ELSE LET s == setRevealedValue(m1, msg.value)
            IN [Ret([s.m EXCEPT !.view = "ViewReveal"]) EXCEPT
                  !.freed = s.freed,
                  !.log = LogSecretReveal(mm.auditLogger, "SUCCESS")]

\* The copy completion that keeps the deadline of a timer already running.
onSecretCopiedKeepsDeadline(mm, msg) ==
  LET m1 == [mm EXCEPT !.loading = FALSE]
  IN IF msg.err
       THEN [Ret(m1) EXCEPT !.status = "Error copying",
                            !.log = LogSecretCopy(mm.auditLogger, "FAILURE")]
       ELSE IF mm.config.AutoClear /\ mm.config.TimeoutSeconds > 0
         THEN [Ret([m1 EXCEPT
                      !.clipboardClearAt =
                         IF mm.clipboardActive THEN mm.clipboardClearAt
                         ELSE now + mm.config.TimeoutSeconds * Second,
                      !.clipboardActive = TRUE]) EXCEPT
                 !.status = "Copied! Auto-clear in",
                 !.log = LogSecretCopy(mm.auditLogger, "SUCCESS"),
                 !.cmds = <<Cmd("clipboardTickCmd", "")>>]
         ELSE [Ret(m1) EXCEPT
                 !.status = "Secret value copied to clipboard",
                 !.log = LogSecretCopy(mm.auditLogger, "SUCCESS")]

\* case secretCopiedMsg
onSecretCopied(mm, msg) ==
  LET m1 == [mm EXCEPT !.loading = FALSE]
  IN IF msg.err
       THEN [Ret(m1) EXCEPT !.status = "Error copying",
                            !.log = LogSecretCopy(mm.auditLogger, "FAILURE")]
       ELSE IF mm.config.AutoClear /\ mm.config.TimeoutSeconds > 0
         THEN [Ret([m1 EXCEPT
                      !.clipboardClearAt = now + mm.config.TimeoutSeconds * Second,
                      !.clipboardActive = TRUE]) EXCEPT
                 !.status = "Copied! Auto-clear in",
                 !.log = LogSecretCopy(mm.auditLogger, "SUCCESS"),
                 !.cmds = <<Cmd("clipboardTickCmd", "")>>]
         ELSE [Ret(m1) EXCEPT
                 !.status = "Secret value copied to clipboard",
                 !.log = LogSecretCopy(mm.auditLogger, "SUCCESS")]

\* ----------------------------------------------------------------- timers
\* The tick that stops at the deadline without emitting the clear task.
onClipboardTickStopsAtDeadline(mm, msg) ==
  IF ~mm.clipboardActive \/ mm.clipboardClearAt - now <= 0
    THEN Ret(mm)
    ELSE [Ret(mm) EXCEPT !.status = "Clipboard will clear in",
                         !.cmds = <<Cmd("clipboardTickCmd", "")>>]

\* case clipboardTickMsg
onClipboardTick(mm, msg) ==
  IF ~mm.clipboardActive
    THEN Ret(mm)
    ELSE IF mm.clipboardClearAt - now <= 0
      THEN [Ret(mm) EXCEPT !.cmds = <<Cmd("clearClipboardCmd", "")>>]
      ELSE [Ret(mm) EXCEPT !.status = "Clipboard will clear in",
                           !.cmds = <<Cmd("clipboardTickCmd", "")>>]

\* case clipboardClearMsg
onClipboardClear(mm, msg) ==
  [Ret([mm EXCEPT !.clipboardActive = FALSE]) EXCEPT
     !.status = "Clipboard cleared",
     !.log = LogClipboardClear(mm.auditLogger)]

\* shouldLock with the inactivity test made inclusive (>= for >).
shouldLockAtThreshold(mm) ==
  /\ mm.config.InactivityTimeout > 0
  /\ mm.config.LockOnTimeout
  /\ now - mm.lastActivity >= mm.config.InactivityTimeout * Minute
  /\ ~mm.sessionLocked

\* shouldLock without the test of the lock flag.
shouldLockAgain(mm) ==
  /\ mm.config.InactivityTimeout > 0
  /\ mm.config.LockOnTimeout
  /\ now - mm.lastActivity > mm.config.InactivityTimeout * Minute

\* time.Since(m.lastActivity) > timeout && !m.sessionLocked, under the
\* enabling test of the configuration
shouldLock(mm) ==
  /\ mm.config.InactivityTimeout > 0
  /\ mm.config.LockOnTimeout
  /\ now - mm.lastActivity > mm.config.InactivityTimeout * Minute
  /\ ~mm.sessionLocked

\* The lock step without the call of clearRevealedValue.
onSessionTimeoutKeepsValue(mm, msg) ==
  LET tick == <<Cmd("sessionTimeoutTickCmd", "")>>
      locks == /\ mm.config.InactivityTimeout > 0
               /\ mm.config.LockOnTimeout
               /\ now - mm.lastActivity > mm.config.InactivityTimeout * Minute
               /\ ~mm.sessionLocked
  IN IF locks
       THEN [Ret([mm EXCEPT !.sessionLocked = TRUE,
                            !.lockedPrevView = mm.view,
                            !.view = "ViewLocked",
                            !.clipboardActive = FALSE]) EXCEPT
               !.clip = IF mm.clipboardActive THEN "clear" ELSE "keep",
               !.log = LogSessionLock(mm.auditLogger),
               !.cmds = tick]
       ELSE [Ret(mm) EXCEPT !.cmds = tick]

\* The session check that reschedules itself only while unlocked.
onSessionTimeoutStopsWhenLocked(mm, msg) ==
  LET tick == <<Cmd("sessionTimeoutTickCmd", "")>>
      locks == /\ mm.config.InactivityTimeout > 0
               /\ mm.config.LockOnTimeout
               /\ now - mm.lastActivity > mm.config.InactivityTimeout * Minute
  IN IF mm.sessionLocked THEN Ret(mm)
     ELSE IF locks
       THEN LET m1 == [mm EXCEPT !.sessionLocked = TRUE,
                                 !.lockedPrevView = mm.view,
                                 !.view = "ViewLocked"]
                c == clearRevealedValue(m1)
            IN [Ret([c.m EXCEPT !.clipboardActive = FALSE]) EXCEPT
                  !.freed = c.freed,
                  !.clip = IF mm.clipboardActive THEN "clear" ELSE "keep",
                  !.log = LogSessionLock(mm.auditLogger),
                  !.cmds = tick]
       ELSE [Ret(mm) EXCEPT !.cmds = tick]

\* case sessionTimeoutMsg
onSessionTimeout(mm, msg) ==
  LET tick == <<Cmd("sessionTimeoutTickCmd", "")>>
  IN IF shouldLock(mm)
       THEN LET m1 == [mm EXCEPT !.sessionLocked = TRUE,
                                 !.lockedPrevView = mm.view,
                                 !.view = "ViewLocked"]
                c == clearRevealedValue(m1)
            IN [Ret([c.m EXCEPT !.clipboardActive = FALSE]) EXCEPT
                  !.freed = c.freed,
                  !.clip = IF mm.clipboardActive THEN "clear" ELSE "keep",
                  !.log = LogSessionLock(mm.auditLogger),
                  !.cmds = tick]
       ELSE [Ret(mm) EXCEPT !.cmds = tick]

\* ------------------------------------------------------------ key input
\* for i := range m.revealedValue { m.revealedValue[i] = 0 }; m.revealedValue = nil
wipeRevealedValue(mm) ==
  [m |-> [mm EXCEPT !.revealedValue = None],
   freed |-> IF mm.revealedValue # None
               THEN <<Zeroed(mm.revealedValue[1])>> ELSE <<>>]

\* The copy paths that start the timer in the handler itself.
startClipboardTimer(mm) ==
  [mm EXCEPT !.clipboardClearAt = now + mm.config.TimeoutSeconds * Second,
             !.clipboardActive = TRUE]

updateProjectPrompt(mm, key, inp) ==
  CASE key = "enter" ->
         IF inp.text = ""
           THEN [Ret(mm) EXCEPT !.status = "Project ID is required"]
           ELSE [Ret([mm EXCEPT !.view = "ViewList", !.loading = TRUE]) EXCEPT
                   !.cmds = <<Cmd("initializeClient", "")>>]
    [] key = "q" -> Quit(mm)
    [] OTHER -> Ret(mm)

\* inp.item is what lies under the cursor: "none" when nothing is displayed,
\* "folder", or the name of a secret of m.secrets.
updateList(mm, key, inp) ==
  IF mm.loading THEN Ret(mm) ELSE
  CASE key \in {"enter", "l"} ->
         IF inp.item \in mm.secrets
           THEN [Ret([mm EXCEPT !.selectedSecret = Some(inp.item),
                                !.view = "ViewDetail",
                                !.loading = TRUE]) EXCEPT
                   !.cmds = <<Cmd("loadVersions", inp.item)>>]
           ELSE Ret(mm)
    [] key = "/" -> Ret([mm EXCEPT !.view = "ViewFilter"])
    [] key = "n" -> Ret([mm EXCEPT !.view = "ViewCreate"])
    [] key = "d" ->
         IF inp.item \in mm.secrets
           THEN Ret([mm EXCEPT !.selectedSecret = Some(inp.item),
                               !.view = "ViewDelete"])
           ELSE Ret(mm)
    [] key = "ctrl+r" ->
         [Ret([mm EXCEPT !.loading = TRUE]) EXCEPT !.cmds = <<Cmd("loadSecrets", "")>>]
    [] key = "ctrl+s" -> Ret([mm EXCEPT !.view = "ViewConfigMenu"])
    [] key = "q" -> Quit(mm)
    [] OTHER -> Ret(mm)

updateDetail(mm, key, inp) ==
  IF mm.loading THEN Ret(mm) ELSE
  CASE key \in {"esc", "backspace", "h"} ->
         LET w == wipeRevealedValue([mm EXCEPT !.view = "ViewList",
                                               !.selectedSecret = None,
                                               !.versions = 0])
         IN [Ret(w.m) EXCEPT !.freed = w.freed]
    [] key = "r" ->
         IF mm.versions > 0
           THEN IF mm.selectedSecret = None THEN Panic(mm)
                ELSE [Ret([mm EXCEPT !.loading = TRUE]) EXCEPT
                        !.cmds = <<Cmd("accessSecretVersion", mm.selectedSecret[1])>>]
           ELSE Ret(mm)
    [] key \in {"c", "y"} ->
         IF mm.versions > 0
           THEN IF mm.selectedSecret = None THEN Panic(mm)
                ELSE [Ret([mm EXCEPT !.loading = TRUE]) EXCEPT
                        !.cmds = <<Cmd("copySecretValue", mm.selectedSecret[1])>>]
           ELSE Ret(mm)
    [] key = "a" -> Ret([mm EXCEPT !.view = "ViewAddVersion"])
    [] key = "g" -> Ret([mm EXCEPT !.view = "ViewGenerate", !.generatedCode = FALSE])
    [] key = "d" -> Ret([mm EXCEPT !.view = "ViewDelete"])
    [] key = "q" -> Quit(mm)
    [] OTHER -> Ret(mm)

\* The create submission without the test of the name.
submitCreateUnchecked(mm, inp) ==
  [Ret([mm EXCEPT !.loading = TRUE]) EXCEPT
     !.cmds = <<Cmd("createSecret", inp.text)>>]

\* inp.mode: "addingLoc" while a new location is typed, "editorValue" when
\* the multi-line editor has the focus, "addLoc" when the location field
\* shows "add new", "form" otherwise.  inp.text is the name field.
submitCreate(mm, inp) ==
  IF inp.text = ""
    THEN [Ret(mm) EXCEPT !.status = "Secret name is required"]
    ELSE [Ret([mm EXCEPT !.loading = TRUE]) EXCEPT
            !.cmds = <<Cmd("createSecret", inp.text)>>]

updateCreate(mm, key, inp) ==
  IF inp.mode = "addingLoc" THEN Ret(mm) ELSE
  CASE key = "enter" ->
         IF inp.mode \in {"editorValue", "addLoc"} THEN Ret(mm)
         ELSE submitCreate(mm, inp)
    [] key = "ctrl+s" -> submitCreate(mm, inp)
    [] key = "esc" -> Ret([mm EXCEPT !.view = "ViewList"])
    [] OTHER -> Ret(mm)

updateAddVersion(mm, key, inp) ==
  CASE key = "enter" ->
         IF inp.text = ""
           THEN [Ret(mm) EXCEPT !.status = "Value is required"]
           ELSE IF mm.selectedSecret = None THEN Panic(mm)
           ELSE [Ret([mm EXCEPT !.loading = TRUE]) EXCEPT
                   !.cmds = <<Cmd("addVersion", mm.selectedSecret[1])>>]
    [] key = "esc" -> Ret([mm EXCEPT !.view = "ViewDetail"])
    [] OTHER -> Ret(mm)

\* The delete confirmation that takes enter as a confirmation too.
updateDeleteEnterConfirms(mm, key, inp) ==
  CASE key \in {"y", "enter"} ->
         IF mm.selectedSecret = None THEN Panic(mm)
         ELSE [Ret([mm EXCEPT !.loading = TRUE]) EXCEPT
                 !.cmds = <<Cmd("deleteSecret", mm.selectedSecret[1])>>]
    [] key \in {"n", "esc"} ->
         IF mm.previousView = "ViewDetail"
           THEN Ret([mm EXCEPT !.view = "ViewDetail"])
           ELSE Ret([mm EXCEPT !.view = "ViewList"])
    [] OTHER -> Ret(mm)

updateDelete(mm, key, inp) ==
  CASE key = "y" ->
         IF mm.selectedSecret = None THEN Panic(mm)
         ELSE [Ret([mm EXCEPT !.loading = TRUE]) EXCEPT
                 !.cmds = <<Cmd("deleteSecret", mm.selectedSecret[1])>>]
    [] key \in {"n", "esc"} ->
         IF mm.previousView = "ViewDetail"
           THEN Ret([mm EXCEPT !.view = "ViewDetail"])
           ELSE Ret([mm EXCEPT !.view = "ViewList"])
    [] OTHER -> Ret(mm)

\* generateCode gives "" without a selected secret or a template under the
\* cursor; inp.text = "" stands for a cursor past the templates or a
\* template that renders to nothing.
generateCode(mm, inp) == mm.selectedSecret # None /\ inp.text # ""

updateGenerate(mm, key, inp) ==
  CASE key = "enter" -> Ret([mm EXCEPT !.generatedCode = generateCode(mm, inp)])
    [] key \in {"c", "y"} ->
         IF ~mm.generatedCode THEN Ret(mm)
         ELSE IF inp.ioErr
           THEN [Ret(mm) EXCEPT !.status = "Failed to copy to clipboard"]
         ELSE IF mm.config.AutoClear
           THEN [Ret(startClipboardTimer(mm)) EXCEPT
                   !.clip = "code", !.status = "Code copied to clipboard!",
                   !.cmds = <<Cmd("clipboardTickCmd", "")>>]
           ELSE [Ret(mm) EXCEPT !.clip = "code", !.status = "Code copied to clipboard!"]
    [] key \in {"esc", "backspace", "h"} ->
         Ret([mm EXCEPT !.view = "ViewDetail", !.generatedCode = FALSE])
    [] OTHER -> Ret(mm)

\* inp.opt is the menu cursor.
updateConfigMenu(mm, key, inp) ==
  CASE key \in {"enter", "l"} ->
         CASE inp.opt = 0 -> Ret([mm EXCEPT !.view = "ViewConfigBasic"])
           [] inp.opt = 1 -> Ret([mm EXCEPT !.view = "ViewConfigTemplates"])
           [] inp.opt = 2 -> Ret([mm EXCEPT !.view = "ViewConfigRecentProjects"])
           [] inp.opt = 3 -> Ret([mm EXCEPT !.view = "ViewConfigSecurity"])
           [] inp.opt = 4 -> [Ret([mm EXCEPT !.view = "ViewList"]) EXCEPT
                                !.status = "Configuration saved"]
           [] OTHER -> Ret(mm)
    [] key \in {"esc", "q"} -> Ret([mm EXCEPT !.view = "ViewList"])
    [] OTHER -> Ret(mm)

updateConfigBasic(mm, key, inp) ==
  CASE key = "enter" ->
         [Ret([mm EXCEPT !.view = "ViewConfigMenu"]) EXCEPT !.status = "Settings updated"]
    [] key = "esc" -> Ret([mm EXCEPT !.view = "ViewConfigMenu"])
    [] OTHER -> Ret(mm)

\* inp.opt = 0: the cursor is on a template; 1: on the row past the last one.
updateConfigTemplates(mm, key, inp) ==
  CASE key \in {"enter", "e"} ->
         IF inp.opt = 0 THEN Ret([mm EXCEPT !.view = "ViewConfigTemplateEdit"])
         ELSE Ret(mm)
    [] key = "n" -> Ret([mm EXCEPT !.view = "ViewConfigTemplateEdit"])
    [] key \in {"esc", "backspace", "h"} -> Ret([mm EXCEPT !.view = "ViewConfigMenu"])
    [] OTHER -> Ret(mm)

\* inp.text is the title; inp.opt = 0: the title has the focus or the code
\* area is empty.
updateConfigTemplateEdit(mm, key, inp) ==
  CASE key = "ctrl+s" ->
         IF inp.text = ""
           THEN [Ret(mm) EXCEPT !.status = "Template title is required"]
           ELSE [Ret([mm EXCEPT !.view = "ViewConfigTemplates"]) EXCEPT
                   !.status = "Template saved"]
    [] key = "esc" ->
         IF inp.opt = 0 THEN Ret([mm EXCEPT !.view = "ViewConfigTemplates"])
         ELSE Ret(mm)
    [] OTHER -> Ret(mm)

\* inp.opt = 0: the cursor is on a recent project; 1: the list is empty.
updateConfigRecentProjects(mm, key, inp) ==
  CASE key = "enter" ->
         IF inp.opt = 0
           THEN [Ret([mm EXCEPT !.view = "ViewList", !.loading = TRUE]) EXCEPT
                   !.status = "Switched to project",
                   !.cmds = <<Cmd("initializeClient", "")>>]
           ELSE Ret(mm)
    [] key \in {"esc", "backspace", "h"} -> Ret([mm EXCEPT !.view = "ViewConfigMenu"])
    [] OTHER -> Ret(mm)

\* The value after cur in the cycle; the first one when cur is not in it.
cycleNext(table, cur) ==
  LET idx == IF \E i \in 1..Len(table) : table[i] = cur
               THEN CHOOSE i \in 1..Len(table) :
                      table[i] = cur /\ \A j \in 1..(i - 1) : table[j] # cur
               ELSE 1
  IN table[(idx % Len(table)) + 1]

ClipboardTimeouts == <<15, 30, 60, 120>>
InactivityTimeouts == <<0, 5, 10, 15, 30, 60>>

\* case 2 of the security options: toggle audit logging and replace the
\* logger; inp.ioErr: NewLogger fails.
toggleAudit(mm, inp) ==
  LET old == mm.config.AuditEnabled
      m1 == [mm EXCEPT !.config.AuditEnabled = ~old]
      logger == IF ~old
                  THEN IF inp.ioErr THEN mm.auditLogger ELSE "enabled"
                  ELSE "nil"
  IN [Ret([m1 EXCEPT !.auditLogger = logger]) EXCEPT
        !.status = "Audit logging toggled",
        !.log = LogConfigChange(logger)]

\* inp.opt is the cursor on the seven security options.
updateConfigSecurity(mm, key, inp) ==
  CASE key \in {"enter", " "} ->
         CASE inp.opt = 0 ->
                [Ret([mm EXCEPT !.config.AutoClear = ~mm.config.AutoClear]) EXCEPT
                   !.status = "Clipboard auto-clear toggled"]
           [] inp.opt = 1 ->
                [Ret([mm EXCEPT !.config.TimeoutSeconds =
                        cycleNext(ClipboardTimeouts, mm.config.TimeoutSeconds)]) EXCEPT
                   !.status = "Clipboard timeout"]
           [] inp.opt = 2 -> toggleAudit(mm, inp)
           [] inp.opt = 3 -> [Ret(mm) EXCEPT !.status = "Audit retention"]
           [] inp.opt = 4 -> Ret([mm EXCEPT !.view = "ViewAuditLog"])
           [] inp.opt = 5 ->
                [Ret([mm EXCEPT !.config.LockOnTimeout = ~mm.config.LockOnTimeout]) EXCEPT
                   !.status = "Session lock on timeout toggled"]
           [] inp.opt = 6 ->
                [Ret([mm EXCEPT !.config.InactivityTimeout =
                        cycleNext(InactivityTimeouts, mm.config.InactivityTimeout)]) EXCEPT
                   !.status = "Inactivity timeout"]
           [] OTHER -> Ret(mm)
    [] key \in {"esc", "backspace", "h"} -> Ret([mm EXCEPT !.view = "ViewConfigMenu"])
    [] OTHER -> Ret(mm)

updateAuditLog(mm, key, inp) ==
  CASE key = "r" -> [Ret(mm) EXCEPT !.status = "Logs refreshed"]
    [] key \in {"esc", "backspace", "h"} -> Ret([mm EXCEPT !.view = "ViewConfigSecurity"])
    [] OTHER -> Ret(mm)

\* updateLocked with "esc" accepted as a third unlock key.
updateLockedEscUnlocks(mm, key, inp) ==
  CASE key \in {"enter", " ", "esc"} ->
         [Ret([mm EXCEPT !.sessionLocked = FALSE,
                         !.view = mm.lockedPrevView,
                         !.lastActivity = now]) EXCEPT
            !.log = LogSessionUnlock(mm.auditLogger),
            !.status = "Session unlocked"]
    [] key = "q" -> Quit(mm)
    [] OTHER -> Ret(mm)

\* updateLocked that clears the flag and leaves the locked view on screen.
updateLockedKeepsView(mm, key, inp) ==
  CASE key \in {"enter", " "} ->
         [Ret([mm EXCEPT !.sessionLocked = FALSE,
                         !.lastActivity = now]) EXCEPT
            !.log = LogSessionUnlock(mm.auditLogger),
            !.status = "Session unlocked"]
    [] key = "q" -> Quit(mm)
    [] OTHER -> Ret(mm)

\* case ViewLocked, and every key but ctrl+c while m.sessionLocked
updateLocked(mm, key, inp) ==
  CASE key \in {"enter", " "} ->
         [Ret([mm EXCEPT !.sessionLocked = FALSE,
                         !.view = mm.lockedPrevView,
                         !.lastActivity = now]) EXCEPT
            !.log = LogSessionUnlock(mm.auditLogger),
            !.status = "Session unlocked"]
    [] key = "q" -> Quit(mm)
    [] OTHER -> Ret(mm)

\* The switch view whose cancel key always goes to the list.
updateProjectSwitchBackToList(mm, key, inp) ==
  CASE key = "esc" -> Ret([mm EXCEPT !.view = "ViewList"])
    [] OTHER -> Ret(mm)

\* inp.sel is the project the cursor and the typed text select: "new" (not
\* the current one), "same" (the current one) or "none".
updateProjectSwitch(mm, key, inp) ==
  CASE key = "enter" ->
         CASE inp.sel = "new" ->
                [Ret([mm EXCEPT !.view = "ViewList", !.loading = TRUE]) EXCEPT
                   !.log = LogProjectSwitch(mm.auditLogger),
                   !.status = "Switched to",
                   !.cmds = <<Cmd("initializeClient", "")>>]
           [] inp.sel = "same" ->
                [Ret([mm EXCEPT !.view = mm.projectSwitchPrevView]) EXCEPT
                   !.status = "Already on this project"]
           [] OTHER -> Ret(mm)
    [] key = "esc" -> Ret([mm EXCEPT !.view = mm.projectSwitchPrevView])
    [] OTHER -> Ret(mm)

updateFilter(mm, key, inp) ==
  CASE key \in {"enter", "esc"} -> Ret([mm EXCEPT !.view = "ViewList"])
    [] OTHER -> Ret(mm)

\* inp.ioErr: clipboard.WriteText fails.
updateReveal(mm, key, inp) ==
  CASE key \in {"esc", "backspace", "enter", "r"} ->
         LET w == wipeRevealedValue([mm EXCEPT !.view = "ViewDetail"])
         IN [Ret(w.m) EXCEPT !.freed = w.freed]
    [] key \in {"c", "y"} ->
         IF Len(getRevealedValueString(mm)) > 0
           THEN IF inp.ioErr
                  THEN [Ret(mm) EXCEPT !.status = "Error copying"]
                ELSE IF mm.config.AutoClear /\ mm.config.TimeoutSeconds > 0
                  THEN [Ret(startClipboardTimer(mm)) EXCEPT
                          !.clip = "secret", !.status = "Copied! Auto-clear in",
                          !.cmds = <<Cmd("clipboardTickCmd", "")>>]
                  ELSE [Ret(mm) EXCEPT !.clip = "secret",
                                       !.status = "Secret value copied to clipboard"]
           ELSE Ret(mm)
    [] OTHER -> Ret(mm)

\* The key dispatch that defers the quit combination while a task is loading.
updateKeyQuitUnlessLoading(mm, key, inp) ==
  IF key = "ctrl+c" /\ ~mm.loading THEN Quit(mm)
  ELSE IF mm.sessionLocked THEN updateLocked(mm, key, inp)
  ELSE IF mm.view = "ViewList" THEN updateList(mm, key, inp)
  ELSE IF mm.view = "ViewDetail" THEN updateDetail(mm, key, inp)
  ELSE Ret(mm)

\* ----------------------------------------------------------------- Update
\* case tea.KeyMsg
updateKey(mm, key, inp) ==
  IF key = "ctrl+c" THEN Quit(mm)
  ELSE IF mm.sessionLocked THEN updateLocked(mm, key, inp)
  ELSE IF key = "ctrl+p"
          /\ mm.view \notin {"ViewProjectPrompt", "ViewProjectSwitch", "ViewLocked"}
    THEN Ret([mm EXCEPT !.projectSwitchPrevView = mm.view,
                        !.view = "ViewProjectSwitch"])
  ELSE CASE mm.view = "ViewProjectPrompt" -> updateProjectPrompt(mm, key, inp)
         [] mm.view = "ViewList" -> updateList(mm, key, inp)
         [] mm.view = "ViewDetail" -> updateDetail(mm, key, inp)
         [] mm.view = "ViewCreate" -> updateCreate(mm, key, inp)
         [] mm.view = "ViewAddVersion" -> updateAddVersion(mm, key, inp)
         [] mm.view = "ViewDelete" -> updateDelete(mm, key, inp)
         [] mm.view = "ViewGenerate" -> updateGenerate(mm, key, inp)
         [] mm.view \in {"ViewConfig", "ViewConfigMenu"} -> updateConfigMenu(mm, key, inp)
         [] mm.view = "ViewConfigBasic" -> updateConfigBasic(mm, key, inp)
         [] mm.view = "ViewConfigTemplates" -> updateConfigTemplates(mm, key, inp)
         [] mm.view = "ViewConfigTemplateEdit" -> updateConfigTemplateEdit(mm, key, inp)
         [] mm.view = "ViewConfigRecentProjects" -> updateConfigRecentProjects(mm, key, inp)
         [] mm.view = "ViewConfigSecurity" -> updateConfigSecurity(mm, key, inp)
         [] mm.view = "ViewAuditLog" -> updateAuditLog(mm, key, inp)
         [] mm.view = "ViewFilter" -> updateFilter(mm, key, inp)
         [] mm.view = "ViewReveal" -> updateReveal(mm, key, inp)
         [] mm.view = "ViewProjectSwitch" -> updateProjectSwitch(mm, key, inp)
         [] mm.view = "ViewLocked" -> updateLocked(mm, key, inp)

\* Activity tracking that skips the events of a locked session.
trackActivityUnlessLocked(mm, msg) ==
  IF msg.type \in {"KeyMsg", "MouseMsg"} /\ ~mm.sessionLocked
    THEN [mm EXCEPT !.lastActivity = now] ELSE mm

\* switch msg.(type) { case tea.KeyMsg, tea.MouseMsg: m.lastActivity = time.Now() }
trackActivity(mm, msg) ==
  IF msg.type \in {"KeyMsg", "MouseMsg"} THEN [mm EXCEPT !.lastActivity = now] ELSE mm

Update(mm, msg) ==
  LET m1 == trackActivity(mm, msg)
  IN CASE msg.type = "KeyMsg" -> updateKey(m1, msg.key, msg.inp)
       [] msg.type = "clientInitializedMsg" -> onClientInitialized(m1, msg)
       [] msg.type = "secretsLoadedMsg" -> onSecretsLoaded(m1, msg)
       [] msg.type = "versionsLoadedMsg" -> onVersionsLoaded(m1, msg)
       [] msg.type = "secretCreatedMsg" -> onSecretCreated(m1, msg)
       [] msg.type = "secretDeletedMsg" -> onSecretDeleted(m1, msg)
       [] msg.type = "versionAddedMsg" -> onVersionAdded(m1, msg)
       [] msg.type = "secretValueMsg" -> onSecretValue(m1, msg)
       [] msg.type = "secretCopiedMsg" -> onSecretCopied(m1, msg)
       [] msg.type = "clipboardTickMsg" -> onClipboardTick(m1, msg)
       [] msg.type = "clipboardClearMsg" -> onClipboardClear(m1, msg)
       [] msg.type = "sessionTimeoutMsg" -> onSessionTimeout(m1, msg)
       [] OTHER -> Ret(m1)

\* ------------------------------------------------------------ environment
\* The inputs a key handler reads besides the model, per view and key.
InputsFor(mm, key) ==
  IF mm.sessionLocked \/ key \in {"ctrl+c", "ctrl+p"} THEN {DefaultInp}
  ELSE CASE mm.view = "ViewList" /\ key \in {"enter", "l", "d"} ->
              {[DefaultInp EXCEPT !.item = i] : i \in {"none", "folder"} \cup mm.secrets}
         [] mm.view = "ViewCreate" /\ key \in {"enter", "ctrl+s"} ->
              {[DefaultInp EXCEPT !.mode = md, !.text = t] :
                 md \in {"form", "addingLoc", "editorValue", "addLoc"}, t \in Texts}
         [] mm.view \in {"ViewProjectPrompt", "ViewAddVersion", "ViewGenerate"}
              /\ key = "enter" ->
              {[DefaultInp EXCEPT !.text = t] : t \in Texts}
         [] mm.view \in {"ViewGenerate", "ViewReveal"} /\ key \in {"c", "y"} ->
              {[DefaultInp EXCEPT !.ioErr = e] : e \in BOOLEAN}
         [] mm.view \in {"ViewConfig", "ViewConfigMenu"} /\ key \in {"enter", "l"} ->
              {[DefaultInp EXCEPT !.opt = o] : o \in 0..4}
         [] mm.view = "ViewConfigSecurity" /\ key \in {"enter", " "} ->
              {[DefaultInp EXCEPT !.opt = o, !.ioErr = e] : o \in 0..6, e \in BOOLEAN}
         [] mm.view \in {"ViewConfigTemplates", "ViewConfigRecentProjects"}
              /\ key \in {"enter", "e"} ->
              {[DefaultInp EXCEPT !.opt = o] : o \in 0..1}
         [] mm.view = "ViewConfigTemplateEdit" /\ key \in {"ctrl+s", "esc"} ->
              {[DefaultInp EXCEPT !.opt = o, !.text = t] : o \in 0..1, t \in Texts}
         [] mm.view = "ViewProjectSwitch" /\ key = "enter" ->
              {[DefaultInp EXCEPT !.sel = x] : x \in {"new", "same", "none"}}
         [] OTHER -> {DefaultInp}

KeyMsg(key, inp) == [Msg("KeyMsg") EXCEPT !.key = key, !.inp = inp]

\* The key messages the user can send in the current state.
KeysIn(mm, keys) == UNION {{KeyMsg(k, i) : i \in InputsFor(mm, k)} : k \in keys}
KeyMsgs == KeysIn(m, Keys)

CountOf(cmds, kind) == Cardinality({i \in 1..Len(cmds) : cmds[i].kind = kind})

\* A copy has succeeded in this Update: a copy completion without error, or
\* a clipboard write made by the handler itself.
copySucceeded(msg, r) ==
  \/ msg.type = "secretCopiedMsg" /\ ~msg.err
  \/ r.clip \in {"secret", "code"}

\* One Update: the message is handled, the returned commands are started.
\* taken is the bag of what is in flight once the message is consumed.
Handle(msg, taken) ==
  LET r == Update(m, msg)
      started == [k \in TaskKinds |-> taken[k] + CountOf(r.cmds, k)]
  IN /\ halted = "run"
     /\ \A k \in TaskKinds : started[k] <= MaxPending(k)
     /\ m' = r.m
     /\ pending' = started
     /\ clipboard' = CASE r.clip = "keep" -> clipboard
                       [] r.clip = "clear" -> "empty"
                       [] OTHER -> r.clip
     /\ halted' = r.halt
     /\ lastCopy' = IF copySucceeded(msg, r)
                      THEN Some([at |-> now, timeout |-> m.config.TimeoutSeconds,
                                 autoClear |-> m.config.AutoClear])
                      ELSE lastCopy
     /\ UNCHANGED <<now, libVars>>

Take(kind) == [pending EXCEPT ![kind] = @ - 1]

KeyPress ==
  /\ events < MaxEvents
  /\ \E msg \in KeyMsgs : Handle(msg, pending)
  /\ events' = events + 1

Mouse ==
  /\ events < MaxEvents
  /\ Handle(Msg("MouseMsg"), pending)
  /\ events' = events + 1

\* The messages a finished task of the kind may send: its result, with or
\* without an error.  copySecretValue and clearClipboardCmd act on the
\* clipboard first; their messages are queued under kinds of their own.
MsgsOf(kind) ==
  CASE kind = "initializeClient" ->
         {[Msg("clientInitializedMsg") EXCEPT !.err = e] : e \in BOOLEAN}
    [] kind = "loadSecrets" ->
         {[Msg("secretsLoadedMsg") EXCEPT !.secrets = ss] : ss \in SUBSET SecretNames}
           \cup {[Msg("secretsLoadedMsg") EXCEPT !.err = TRUE]}
    [] kind = "loadVersions" ->
         {[Msg("versionsLoadedMsg") EXCEPT !.n = n] : n \in 0..MaxVersions}
           \cup {[Msg("versionsLoadedMsg") EXCEPT !.err = TRUE]}
    [] kind = "createSecret" ->
         {[Msg("secretCreatedMsg") EXCEPT !.err = e] : e \in BOOLEAN}
    [] kind = "deleteSecret" ->
         {[Msg("secretDeletedMsg") EXCEPT !.err = e] : e \in BOOLEAN}
    [] kind = "addVersion" ->
         {[Msg("versionAddedMsg") EXCEPT !.err = e] : e \in BOOLEAN}
    [] kind = "accessSecretVersion" ->
         {[Msg("secretValueMsg") EXCEPT !.value = v] : v \in Payloads}
           \cup {[Msg("secretValueMsg") EXCEPT !.err = TRUE]}
    [] kind = "secretCopiedMsg.ok" -> {Msg("secretCopiedMsg")}
    [] kind = "secretCopiedMsg.err" -> {[Msg("secretCopiedMsg") EXCEPT !.err = TRUE]}
    [] kind = "clipboardClearMsg" -> {Msg("clipboardClearMsg")}
    [] kind = "clipboardTickCmd" -> {Msg("clipboardTickMsg")}
    [] kind = "sessionTimeoutTickCmd" -> {Msg("sessionTimeoutMsg")}
    [] OTHER -> {}

\* A remote task has finished and its message is handled.
ClientInitialized ==
  /\ pending["initializeClient"] > 0
  /\ \E msg \in MsgsOf("initializeClient") : Handle(msg, Take("initializeClient"))
  /\ UNCHANGED events

SecretsLoaded ==
  /\ pending["loadSecrets"] > 0
  /\ \E msg \in MsgsOf("loadSecrets") : Handle(msg, Take("loadSecrets"))
  /\ UNCHANGED events

VersionsLoaded ==
  /\ pending["loadVersions"] > 0
  /\ \E msg \in MsgsOf("loadVersions") : Handle(msg, Take("loadVersions"))
  /\ UNCHANGED events

SecretCreated ==
  /\ pending["createSecret"] > 0
  /\ \E msg \in MsgsOf("createSecret") : Handle(msg, Take("createSecret"))
  /\ UNCHANGED events

SecretDeleted ==
  /\ pending["deleteSecret"] > 0
  /\ \E msg \in MsgsOf("deleteSecret") : Handle(msg, Take("deleteSecret"))
  /\ UNCHANGED events

VersionAdded ==
  /\ pending["addVersion"] > 0
  /\ \E msg \in MsgsOf("addVersion") : Handle(msg, Take("addVersion"))
  /\ UNCHANGED events

SecretValue ==
  /\ pending["accessSecretVersion"] > 0
  /\ \E msg \in MsgsOf("accessSecretVersion") : Handle(msg, Take("accessSecretVersion"))
  /\ UNCHANGED events

\* copySecretValue runs: it reads the value and writes it to the clipboard,
\* and its message is queued.
CopyTaskRuns ==
  /\ halted = "run"
  /\ pending["copySecretValue"] > 0
  /\ \E e \in BOOLEAN :
       LET q == IF e THEN "secretCopiedMsg.err" ELSE "secretCopiedMsg.ok"
       IN /\ pending[q] < MaxPending(q)
          /\ pending' = [Take("copySecretValue") EXCEPT ![q] = @ + 1]
          /\ clipboard' = IF e THEN clipboard ELSE "secret"
  /\ UNCHANGED <<m, now, halted, events, lastCopy, libVars>>

\* The queued copy message is handled.
SecretCopied ==
  /\ \E q \in {"secretCopiedMsg.ok", "secretCopiedMsg.err"} :
       /\ pending[q] > 0
       /\ \E msg \in MsgsOf(q) : Handle(msg, Take(q))
  /\ UNCHANGED events

\* clearClipboardCmd runs: it clears the clipboard and its message is queued.
ClearTaskRuns ==
  /\ halted = "run"
  /\ pending["clearClipboardCmd"] > 0
  /\ pending["clipboardClearMsg"] < MaxTimers
  /\ pending' = [Take("clearClipboardCmd") EXCEPT !["clipboardClearMsg"] = @ + 1]
  /\ clipboard' = "empty"
  /\ UNCHANGED <<m, now, halted, events, lastCopy, libVars>>

ClipboardCleared ==
  /\ pending["clipboardClearMsg"] > 0
  /\ \E msg \in MsgsOf("clipboardClearMsg") : Handle(msg, Take("clipboardClearMsg"))
  /\ UNCHANGED events

\* A one-second clipboard tick fires and its message is handled.
ClipboardTick ==
  /\ pending["clipboardTickCmd"] > 0
  /\ \E msg \in MsgsOf("clipboardTickCmd") : Handle(msg, Take("clipboardTickCmd"))
  /\ UNCHANGED events

\* The periodic session check fires and its message is handled.
SessionTimeout ==
  /\ pending["sessionTimeoutTickCmd"] > 0
  /\ \E msg \in MsgsOf("sessionTimeoutTickCmd") : Handle(msg, Take("sessionTimeoutTickCmd"))
  /\ UNCHANGED events

\* Time passes, by a second or by a minute.
AdvanceTime ==
  /\ halted = "run"
  /\ \/ now % Minute < MaxSmallSteps /\ now' = now + Second
     \/ now \div Minute < MaxBigSteps /\ now' = now + Minute
  /\ UNCHANGED <<m, pending, clipboard, halted, events, lastCopy, libVars>>

\* ------------------------------------------------------------ folder tree
\* Names are strings: sequences of one-character strings.  A path is a
\* sequence of names; the tree is the map from the path of a node (its
\* non-empty parts from the root) to the node.
\* Go compares strings byte by byte.
Code(c) ==
  CASE c = "-" -> 45 [] c = "/" -> 47 [] c = "A" -> 65 [] c = "B" -> 66
    [] c = "a" -> 97 [] c = "b" -> 98 [] c = "x" -> 120 [] c = "y" -> 121

RECURSIVE Less(_, _)
Less(s, t) ==
  IF t = <<>> THEN FALSE
  ELSE IF s = <<>> THEN TRUE
  ELSE IF s[1] # t[1] THEN Code(s[1]) < Code(t[1])
  ELSE Less(Tail(s), Tail(t))

\* strings.ToLower
ToLower(s) ==
  [i \in 1..Len(s) |-> CASE s[i] = "A" -> "a" [] s[i] = "B" -> "b" [] OTHER -> s[i]]

\* strings.Contains
Contains(s, sub) ==
  \E i \in 0..(Len(s) - Len(sub)) : SubSeq(s, i + 1, i + Len(sub)) = sub

\* strings.Split(s, sep) for a separator of one character: the parts between
\* the separators, empty parts included.
RECURSIVE SplitFrom(_, _, _, _, _)
SplitFrom(s, sep, i, part, parts) ==
  IF i > Len(s) THEN Append(parts, part)
  ELSE IF s[i] = sep THEN SplitFrom(s, sep, i + 1, <<>>, Append(parts, part))
  ELSE SplitFrom(s, sep, i + 1, Append(part, s[i]), parts)

Split(s, sep) == SplitFrom(s, sep, 1, <<>>, <<>>)

\* strings.Join(parts, sep)
RECURSIVE Join(_, _)
Join(parts, sep) ==
  IF parts = <<>> THEN <<>>
  ELSE IF Len(parts) = 1 THEN parts[1]
  ELSE parts[1] \o <<sep>> \o Join(Tail(parts), sep)

\* &FolderItem{Name: "", Children: ...}
RootNode ==
  [Name |-> <<>>, FullPath |-> <<>>, IsFolder |-> FALSE, Secret |-> None, Depth |-> 0]

\* The inner loop of buildFolderTree for secret i from part j on: an empty
\* part is skipped, a missing child is created (a folder unless it is the
\* last part), an existing child is left as it is.
RECURSIVE insertParts(_, _, _, _, _, _)
\* The build that joins the full path from the parts it kept.
insertPartsJoinsKeptParts(tree, parts, j, current, i, sep) ==
  IF j > Len(parts) THEN tree
  ELSE IF parts[j] = <<>> THEN insertParts(tree, parts, j + 1, current, i, sep)
  ELSE LET child == Append(current, parts[j])
           isFolder == j < Len(parts)
           node == [Name |-> parts[j],
                    FullPath |-> Join(child, sep),
                    IsFolder |-> isFolder,
                    Secret |-> IF isFolder THEN None ELSE Some(i),
                    Depth |-> j - 1]
           grown == IF child \in DOMAIN tree THEN tree ELSE tree @@ (child :> node)
       IN insertParts(grown, parts, j + 1, child, i, sep)

insertParts(tree, parts, j, current, i, sep) ==
  IF j > Len(parts) THEN tree
  ELSE IF parts[j] = <<>> THEN insertParts(tree, parts, j + 1, current, i, sep)
  ELSE LET child == Append(current, parts[j])
           isFolder == j < Len(parts)
           node == [Name |-> parts[j],
                    FullPath |-> Join(SubSeq(parts, 1, j), sep),
                    IsFolder |-> isFolder,
                    Secret |-> IF isFolder THEN None ELSE Some(i),
                    Depth |-> j - 1]
           grown == IF child \in DOMAIN tree THEN tree ELSE tree @@ (child :> node)
       IN insertParts(grown, parts, j + 1, child, i, sep)

RECURSIVE buildFrom(_, _, _, _)
buildFrom(tree, secrets, i, sep) ==
  IF i > Len(secrets) THEN tree
  ELSE buildFrom(insertParts(tree, Split(secrets[i], sep), 1, <<>>, i, sep),
                 secrets, i + 1, sep)

\* buildFolderTree: a new root, then every secret of the list in order.
buildFolderTree(secrets, sep) == buildFrom(<<>> :> RootNode, secrets, 1, sep)

\* current.Children
Children(tree, path) ==
  {q \in DOMAIN tree : Len(q) = Len(path) + 1 /\ SubSeq(q, 1, Len(path)) = path}

\* The order in which a range over the Children map may give the nodes.
MapOrders == {"asc", "desc"}

RECURSIVE Ascending(_)
Ascending(names) ==
  IF names = {} THEN <<>>
  ELSE LET least == CHOOSE n \in names : \A o \in names \ {n} : Less(n, o)
       IN <<least>> \o Ascending(names \ {least})

Reverse(seq) == [i \in 1..Len(seq) |-> seq[Len(seq) + 1 - i]]

MapRange(names, order) ==
  LET asc == Ascending(names)
  IN IF order = "asc" THEN asc ELSE Reverse(asc)

\* The less function of the sort: folders first, then by name.
ItemLess(x, y) ==
  IF x.IsFolder # y.IsFolder THEN x.IsFolder ELSE Less(x.Name, y.Name)

\* sort.Slice, as an insertion sort.
RECURSIVE InsertItem(_, _)
InsertItem(sorted, x) ==
  IF sorted = <<>> THEN <<x>>
  ELSE IF ItemLess(x, sorted[1]) THEN <<x>> \o sorted
  ELSE <<sorted[1]>> \o InsertItem(Tail(sorted), x)

RECURSIVE SortItems(_)
SortItems(items) ==
  IF items = <<>> THEN <<>>
  ELSE InsertItem(SortItems(Tail(items)), items[1])

\* The node the path leads to, or None when a segment is absent.
RECURSIVE Walk(_, _, _)
Walk(tree, current, path) ==
  IF path = <<>> THEN Some(current)
  ELSE IF Append(current, path[1]) \in DOMAIN tree
    THEN Walk(tree, Append(current, path[1]), Tail(path))
    ELSE None

\* The listing that compares the name and the filter as they are written.
updateDisplayItemsCaseSensitive(t, order) ==
  LET at == Walk(t.folderTree, <<>>, t.currentPath)
  IN IF at = None THEN [t EXCEPT !.displayItems = <<>>]
     ELSE LET names == {q[Len(q)] : q \in Children(t.folderTree, at[1])}
              ranged == MapRange(names, order)
              kept == SelectSeq(ranged,
                        LAMBDA n : t.filterText = <<>> \/ Contains(n, t.filterText))
              items == SortItems([k \in 1..Len(kept) |->
                                    t.folderTree[Append(at[1], kept[k])]])
              high == IF t.cursor >= Len(items) THEN Len(items) - 1 ELSE t.cursor
          IN [t EXCEPT !.displayItems = items,
                       !.cursor = IF high < 0 THEN 0 ELSE high]

\* The listing that leaves the cursor where it was.
updateDisplayItemsKeepsCursor(t, order) ==
  LET at == Walk(t.folderTree, <<>>, t.currentPath)
  IN IF at = None THEN [t EXCEPT !.displayItems = <<>>]
     ELSE LET names == {q[Len(q)] : q \in Children(t.folderTree, at[1])}
              ranged == MapRange(names, order)
              kept == SelectSeq(ranged,
                        LAMBDA n : t.filterText = <<>>
                                     \/ Contains(ToLower(n), ToLower(t.filterText)))
              items == SortItems([k \in 1..Len(kept) |->
                                    t.folderTree[Append(at[1], kept[k])]])
          IN [t EXCEPT !.displayItems = items]

\* updateDisplayItems: walk to the current path (no items and the cursor
\* untouched when a segment is absent), collect the children that pass the
\* filter, sort, clamp the cursor.
updateDisplayItems(t, order) ==
  LET at == Walk(t.folderTree, <<>>, t.currentPath)
  IN IF at = None THEN [t EXCEPT !.displayItems = <<>>]
     ELSE LET names == {q[Len(q)] : q \in Children(t.folderTree, at[1])}
              ranged == MapRange(names, order)
              kept == SelectSeq(ranged,
                        LAMBDA n : t.filterText = <<>>
                                     \/ Contains(ToLower(n), ToLower(t.filterText)))
              items == SortItems([k \in 1..Len(kept) |->
                                    t.folderTree[Append(at[1], kept[k])]])
              high == IF t.cursor >= Len(items) THEN Len(items) - 1 ELSE t.cursor
          IN [t EXCEPT !.displayItems = items,
                       !.cursor = IF high < 0 THEN 0 ELSE high]

\* The list view over the tree.  t holds the fields of the Model the list,
\* filter, settings and project-switch views read and write, the commands in
\* flight (inits, loads) and the counters that bound a run (issued, keys).
NewBrowser(sep) ==
  [secrets |-> <<>>, sep |-> sep, folderTree |-> (<<>> :> RootNode),
   currentPath |-> <<>>, filterText |-> <<>>, cursor |-> 0,
   displayItems |-> <<>>, view |-> "ViewList", projectSwitchPrevView |-> "ViewList",
   configMenuCursor |-> 0, loading |-> TRUE, running |-> TRUE, fault |-> FALSE,
   inits |-> 1, loads |-> 0, issued |-> 1, keys |-> 0]

TreeAtRest == NewBrowser("/")

\* case clientInitializedMsg, as far as the list is concerned
browseClientInitialized(t, err) ==
  IF err
    THEN [t EXCEPT !.loading = FALSE, !.inits = @ - 1]
    ELSE [t EXCEPT !.loading = TRUE, !.inits = @ - 1, !.loads = @ + 1]

\* case secretsLoadedMsg
browseSecretsLoaded(t, err, secrets, order) ==
  LET t1 == [t EXCEPT !.loading = FALSE, !.loads = @ - 1]
  IN IF err THEN t1
     ELSE updateDisplayItems(
            [t1 EXCEPT !.secrets = secrets,
                       !.folderTree = buildFolderTree(secrets, t1.sep)], order)

\* updateList.  displayItems[cursor] with the cursor past the end is a fault.
browseList(t, key, order) ==
  IF t.loading THEN t ELSE
  LET n == Len(t.displayItems)
      item == t.displayItems[t.cursor + 1]
  IN CASE key \in {"up", "k"} ->
            IF t.cursor > 0 THEN [t EXCEPT !.cursor = @ - 1] ELSE t
       [] key \in {"down", "j"} ->
            IF t.cursor < n - 1 THEN [t EXCEPT !.cursor = @ + 1] ELSE t
       [] key = "g" -> [t EXCEPT !.cursor = 0]
       [] key = "G" -> IF n > 0 THEN [t EXCEPT !.cursor = n - 1] ELSE t
       [] key \in {"enter", "l"} ->
            IF n = 0 THEN t
            ELSE IF t.cursor >= n THEN [t EXCEPT !.fault = TRUE]
            ELSE IF item.IsFolder
              THEN [updateDisplayItems(
                      [t EXCEPT !.currentPath = Append(@, item.Name)], order)
                    EXCEPT !.cursor = 0]
            ELSE IF item.Secret # None
              THEN [t EXCEPT !.view = "ViewDetail", !.loading = TRUE]
            ELSE t
       [] key \in {"backspace", "h", "esc"} ->
            IF Len(t.currentPath) > 0
              THEN [updateDisplayItems(
                      [t EXCEPT !.currentPath = SubSeq(@, 1, Len(@) - 1)], order)
                    EXCEPT !.cursor = 0]
            ELSE IF t.filterText # <<>>
              THEN updateDisplayItems([t EXCEPT !.filterText = <<>>], order)
            ELSE t
       [] key = "/" -> [t EXCEPT !.view = "ViewFilter"]
       [] key = "n" -> [t EXCEPT !.view = "ViewCreate"]
       [] key = "d" ->
            IF n = 0 THEN t
            ELSE IF t.cursor >= n THEN [t EXCEPT !.fault = TRUE]
            ELSE IF ~item.IsFolder THEN [t EXCEPT !.view = "ViewDelete"]
            ELSE t
       [] key = "ctrl+r" ->
            [t EXCEPT !.loading = TRUE, !.loads = @ + 1, !.issued = @ + 1]
       [] key = "ctrl+s" -> [t EXCEPT !.view = "ViewConfigMenu", !.configMenuCursor = 0]
       [] key = "q" -> [t EXCEPT !.running = FALSE]
       [] OTHER -> t

\* updateFilter; text is the value of the filter input after the key.
browseFilter(t, key, text, order) ==
  IF key \in {"enter", "esc"}
    THEN [updateDisplayItems([t EXCEPT !.view = "ViewList"], order) EXCEPT !.cursor = 0]
    ELSE updateDisplayItems([t EXCEPT !.filterText = text], order)

\* updateConfigMenu
browseConfigMenu(t, key, order) ==
  CASE key \in {"up", "k"} ->
         IF t.configMenuCursor > 0 THEN [t EXCEPT !.configMenuCursor = @ - 1] ELSE t
    [] key \in {"down", "j"} ->
         IF t.configMenuCursor < 4 THEN [t EXCEPT !.configMenuCursor = @ + 1] ELSE t
    [] key \in {"enter", "l"} ->
         CASE t.configMenuCursor = 0 -> [t EXCEPT !.view = "ViewConfigBasic"]
           [] t.configMenuCursor = 1 -> [t EXCEPT !.view = "ViewConfigTemplates"]
           [] t.configMenuCursor = 2 -> [t EXCEPT !.view = "ViewConfigRecentProjects"]
           [] t.configMenuCursor = 3 -> [t EXCEPT !.view = "ViewConfigSecurity"]
           [] OTHER ->
                updateDisplayItems(
                  [t EXCEPT !.view = "ViewList",
                            !.folderTree = buildFolderTree(t.secrets, t.sep)], order)
    [] key \in {"esc", "q"} -> [t EXCEPT !.view = "ViewList"]
    [] OTHER -> t

\* updateConfigBasic; sep is the value of the separator input.
browseConfigBasic(t, key, sep) ==
  CASE key = "enter" ->
         [t EXCEPT !.sep = IF sep # "" THEN sep ELSE @, !.view = "ViewConfigMenu"]
    [] key = "esc" -> [t EXCEPT !.view = "ViewConfigMenu"]
    [] OTHER -> t

\* updateProjectSwitch; sel as in the interface: "new", "same" or "none".
browseProjectSwitch(t, key, sel) ==
  CASE key = "enter" ->
         CASE sel = "new" ->
                [t EXCEPT !.view = "ViewList", !.loading = TRUE,
                          !.currentPath = <<>>, !.cursor = 0,
                          !.inits = @ + 1, !.issued = @ + 1]
           [] sel = "same" -> [t EXCEPT !.view = t.projectSwitchPrevView]
           [] OTHER -> t
    [] key = "esc" -> [t EXCEPT !.view = t.projectSwitchPrevView]
    [] OTHER -> t

\* case tea.KeyMsg of Update, for the views over the tree; the other views
\* leave the list, the tree, the path and the filter alone.
browseKey(t, key, inp, order) ==
  IF key = "ctrl+c" THEN [t EXCEPT !.running = FALSE]
  ELSE IF key = "ctrl+p" /\ t.view \notin {"ViewProjectPrompt", "ViewProjectSwitch", "ViewLocked"}
    THEN [t EXCEPT !.projectSwitchPrevView = t.view, !.view = "ViewProjectSwitch"]
  ELSE CASE t.view = "ViewList" -> browseList(t, key, order)
         [] t.view = "ViewFilter" -> browseFilter(t, key, inp.filter, order)
         [] t.view = "ViewConfigMenu" -> browseConfigMenu(t, key, order)
         [] t.view = "ViewConfigBasic" -> browseConfigBasic(t, key, inp.sep)
         [] t.view = "ViewProjectSwitch" -> browseProjectSwitch(t, key, inp.sel)
         [] OTHER -> t

\* --------------------------------------------------------- list scrolling
\* The cursor and the scroll offset of the list view.  s holds the window
\* height, the number of displayed items, the cursor, the offset, the depth of
\* the current path, whether a filter is set, and the commands in flight.
\* What a listing finds (how many items, or a path segment that is absent) is
\* an input: it depends on the tree.
NewScroller ==
  [height |-> 0, n |-> 0, cursor |-> 0, listOffset |-> 0, depth |-> 0,
   filtered |-> FALSE, view |-> "ViewList", projectSwitchPrevView |-> "ViewList",
   loading |-> TRUE, inits |-> 1, loads |-> 0, issued |-> 1]

ScrollAtRest == NewScroller

\* visibleHeight := m.height - 10; if visibleHeight < 5 { visibleHeight = 5 }
visibleHeight(s) == IF s.height - 10 < 5 THEN 5 ELSE s.height - 10

\* updateDisplayItems, for the cursor and the offset
scrollDisplayItems(s, found) ==
  IF found.absent THEN [s EXCEPT !.n = 0]
  ELSE LET high == IF s.cursor >= found.n THEN found.n - 1 ELSE s.cursor
       IN [s EXCEPT !.n = found.n,
                    !.cursor = IF high < 0 THEN 0 ELSE high,
                    !.listOffset = 0]

\* updateList, for the cursor and the offset.  inp.item is what the cursor
\* is on ("folder" or "leaf"), inp.found what the listing finds.
scrollList(s, key, inp) ==
  IF s.loading THEN s ELSE
  CASE key \in {"up", "k"} ->
         IF s.cursor > 0
           THEN [s EXCEPT !.cursor = @ - 1,
                          !.listOffset = IF s.cursor - 1 < @ THEN s.cursor - 1 ELSE @]
           ELSE s
    [] key \in {"down", "j"} ->
         IF s.cursor < s.n - 1
           THEN [s EXCEPT !.cursor = @ + 1,
                          !.listOffset = IF s.cursor + 1 >= @ + visibleHeight(s)
                                           THEN s.cursor + 1 - visibleHeight(s) + 1
                                           ELSE @]
           ELSE s
    [] key = "g" -> [s EXCEPT !.cursor = 0, !.listOffset = 0]
    [] key = "G" ->
         IF s.n > 0
           THEN [s EXCEPT !.cursor = s.n - 1,
                          !.listOffset = IF s.n - 1 >= visibleHeight(s)
                                           THEN s.n - 1 - visibleHeight(s) + 1
                                           ELSE @]
           ELSE s
    [] key \in {"enter", "l"} ->
         IF s.n = 0 THEN s
         ELSE IF inp.item = "folder"
           THEN [scrollDisplayItems([s EXCEPT !.depth = @ + 1], inp.found)
                 EXCEPT !.cursor = 0, !.listOffset = 0]
         ELSE [s EXCEPT !.view = "ViewDetail", !.loading = TRUE]
    [] key \in {"backspace", "h", "esc"} ->
         IF s.depth > 0
           THEN [scrollDisplayItems([s EXCEPT !.depth = @ - 1], inp.found)
                 EXCEPT !.cursor = 0, !.listOffset = 0]
         ELSE IF s.filtered
           THEN scrollDisplayItems([s EXCEPT !.filtered = FALSE], inp.found)
         ELSE s
    [] key = "/" -> [s EXCEPT !.view = "ViewFilter"]
    [] key = "ctrl+r" ->
         [s EXCEPT !.loading = TRUE, !.loads = @ + 1, !.issued = @ + 1]
    [] OTHER -> s

\* updateFilter; inp.filtered tells whether the input holds text after the key.
scrollFilter(s, key, inp) ==
  IF key \in {"enter", "esc"}
    THEN [scrollDisplayItems([s EXCEPT !.view = "ViewList"], inp.found)
          EXCEPT !.cursor = 0]
    ELSE scrollDisplayItems([s EXCEPT !.filtered = inp.filtered], inp.found)

\* updateProjectSwitch; inp.sel as in the interface.
scrollProjectSwitch(s, key, inp) ==
  CASE key = "enter" ->
         CASE inp.sel = "new" ->
                [s EXCEPT !.view = "ViewList", !.loading = TRUE, !.depth = 0,
                          !.cursor = 0, !.inits = @ + 1, !.issued = @ + 1]
           [] inp.sel = "same" -> [s EXCEPT !.view = s.projectSwitchPrevView]
           [] OTHER -> s
    [] key = "esc" -> [s EXCEPT !.view = s.projectSwitchPrevView]
    [] OTHER -> s

\* case tea.KeyMsg of Update, for the list, filter and project-switch views
scrollKey(s, key, inp) ==
  IF key = "ctrl+p" /\ s.view \notin {"ViewProjectPrompt", "ViewProjectSwitch", "ViewLocked"}
    THEN [s EXCEPT !.projectSwitchPrevView = s.view, !.view = "ViewProjectSwitch"]
  ELSE CASE s.view = "ViewList" -> scrollList(s, key, inp)
         [] s.view = "ViewFilter" -> scrollFilter(s, key, inp)
         [] s.view = "ViewProjectSwitch" -> scrollProjectSwitch(s, key, inp)
         [] OTHER -> s

\* case tea.WindowSizeMsg
scrollWindowSize(s, height) == [s EXCEPT !.height = height]

\* case clientInitializedMsg
scrollClientInitialized(s, err) ==
  IF err
    THEN [s EXCEPT !.loading = FALSE, !.inits = @ - 1]
    ELSE [s EXCEPT !.loading = TRUE, !.inits = @ - 1, !.loads = @ + 1]

\* case secretsLoadedMsg
scrollSecretsLoaded(s, err, found) ==
  LET s1 == [s EXCEPT !.loading = FALSE, !.loads = @ - 1]
  IN IF err THEN s1 ELSE scrollDisplayItems(s1, found)

\* --------------------------------------------------------- version cursor
\* The version list of the detail view and its cursor.  s holds the view, the
\* selected secret ("" for nil), the length of m.versions, the version
\* cursor, the loading flag, the number of versions each secret has in the
\* remote service, and the commands in flight (loadVersions and addVersion
\* by secret).  A version list is never shortened by the service, so the
\* answer to loadVersions is the number of versions of the secret it names.
VersionNames == {"A", "B"}

NewVersions(counts) ==
  [view |-> "ViewList", projectSwitchPrevView |-> "ViewList", listed |-> FALSE,
   selectedSecret |-> "", versions |-> 0, versionCursor |-> 0,
   loading |-> TRUE, fault |-> FALSE, count |-> counts,
   inits |-> 1, loads |-> 0,
   loadVersions |-> [x \in VersionNames |-> 0],
   addVersion |-> [x \in VersionNames |-> 0],
   reads |-> 0, copies |-> 0, issued |-> 1]

VersionsAtRest == NewVersions([x \in VersionNames |-> 1])

\* updateList, for the selected secret and the version cursor; item is the
\* secret under the cursor.
versList(s, key, item) ==
  IF s.loading THEN s ELSE
  CASE key \in {"enter", "l"} ->
         IF ~s.listed THEN s
         ELSE [s EXCEPT !.selectedSecret = item, !.view = "ViewDetail",
                        !.versionCursor = 0, !.loading = TRUE,
                        !.loadVersions[item] = @ + 1, !.issued = @ + 1]
    [] key = "ctrl+r" ->
         [s EXCEPT !.loading = TRUE, !.loads = @ + 1, !.issued = @ + 1]
    [] OTHER -> s

\* version := m.versions[m.versionCursor], which panics past the end
versionAtCursor(s) == s.versionCursor < s.versions

\* updateDetail, for the version list and its cursor
versDetail(s, key) ==
  IF s.loading THEN s ELSE
  CASE key \in {"up", "k"} ->
         IF s.versionCursor > 0 THEN [s EXCEPT !.versionCursor = @ - 1] ELSE s
    [] key \in {"down", "j"} ->
         IF s.versionCursor < s.versions - 1
           THEN [s EXCEPT !.versionCursor = @ + 1] ELSE s
    [] key \in {"esc", "backspace", "h"} ->
         [s EXCEPT !.view = "ViewList", !.selectedSecret = "", !.versions = 0]
    [] key = "r" ->
         IF s.versions > 0
           THEN IF ~versionAtCursor(s) \/ s.selectedSecret = ""
                  THEN [s EXCEPT !.fault = TRUE]
                  ELSE [s EXCEPT !.loading = TRUE, !.reads = @ + 1, !.issued = @ + 1]
           ELSE s
    [] key \in {"c", "y"} ->
         IF s.versions > 0
           THEN IF ~versionAtCursor(s) \/ s.selectedSecret = ""
                  THEN [s EXCEPT !.fault = TRUE]
                  ELSE [s EXCEPT !.loading = TRUE, !.copies = @ + 1, !.issued = @ + 1]
           ELSE s
    [] key = "a" -> [s EXCEPT !.view = "ViewAddVersion"]
    [] OTHER -> s

\* updateAddVersion; text is the value typed
versAddVersion(s, key, text) ==
  CASE key = "enter" ->
         IF text = "" THEN s
         ELSE IF s.selectedSecret = "" THEN [s EXCEPT !.fault = TRUE]
         ELSE [s EXCEPT !.loading = TRUE,
                        !.addVersion[s.selectedSecret] = @ + 1, !.issued = @ + 1]
    [] key = "esc" -> [s EXCEPT !.view = "ViewDetail"]
    [] OTHER -> s

\* updateReveal, for the view
versReveal(s, key) ==
  IF key \in {"esc", "backspace", "enter", "r"}
    THEN [s EXCEPT !.view = "ViewDetail"]
    ELSE s

\* updateProjectSwitch; sel as in the interface.
versProjectSwitch(s, key, sel) ==
  CASE key = "enter" ->
         CASE sel = "new" ->
                [s EXCEPT !.view = "ViewList", !.loading = TRUE,
                          !.inits = @ + 1, !.issued = @ + 1]
           [] sel = "same" -> [s EXCEPT !.view = s.projectSwitchPrevView]
           [] OTHER -> s
    [] key = "esc" -> [s EXCEPT !.view = s.projectSwitchPrevView]
    [] OTHER -> s

\* case tea.KeyMsg of Update, for the views around the version list
versKey(s, key, inp) ==
  IF key = "ctrl+p" /\ s.view \notin {"ViewProjectPrompt", "ViewProjectSwitch", "ViewLocked"}
    THEN [s EXCEPT !.projectSwitchPrevView = s.view, !.view = "ViewProjectSwitch"]
  ELSE CASE s.view = "ViewList" -> versList(s, key, inp.item)
         [] s.view = "ViewDetail" -> versDetail(s, key)
         [] s.view = "ViewAddVersion" -> versAddVersion(s, key, inp.text)
         [] s.view = "ViewReveal" -> versReveal(s, key)
         [] s.view = "ViewProjectSwitch" -> versProjectSwitch(s, key, inp.sel)
         [] OTHER -> s

\* case clientInitializedMsg
versClientInitialized(s, err) ==
  IF err
    THEN [s EXCEPT !.loading = FALSE, !.inits = @ - 1]
    ELSE [s EXCEPT !.loading = TRUE, !.inits = @ - 1, !.loads = @ + 1]

\* case secretsLoadedMsg
versSecretsLoaded(s, err) ==
  LET s1 == [s EXCEPT !.loading = FALSE, !.loads = @ - 1]
  IN IF err THEN s1 ELSE [s1 EXCEPT !.listed = TRUE]

\* case versionsLoadedMsg, answering loadVersions(name)
versVersionsLoaded(s, name, err) ==
  LET s1 == [s EXCEPT !.loading = FALSE, !.loadVersions[name] = @ - 1]
  IN IF err THEN s1 ELSE [s1 EXCEPT !.versions = s.count[name]]

\* addVersion(name) runs and case versionAddedMsg handles its answer
versVersionAdded(s, name, err) ==
  LET s1 == [s EXCEPT !.loading = FALSE, !.addVersion[name] = @ - 1]
  IN IF err THEN s1
     ELSE LET s2 == [s1 EXCEPT !.count[name] = @ + 1, !.view = "ViewDetail"]
          IN IF s.selectedSecret = "" THEN [s2 EXCEPT !.fault = TRUE]
             ELSE [s2 EXCEPT !.loadVersions[s.selectedSecret] = @ + 1]

\* case secretValueMsg
versSecretValue(s, err) ==
  LET s1 == [s EXCEPT !.loading = FALSE, !.reads = @ - 1]
  IN IF err THEN s1 ELSE [s1 EXCEPT !.view = "ViewReveal"]

\* case secretCopiedMsg
versSecretCopied(s) == [s EXCEPT !.loading = FALSE, !.copies = @ - 1]

\* ------------------------------------------------------- audit log files
\* package audit on its own: one Logger, the files of its log directory and
\* the clock.  Sizes are counted in records (one record is one unit and
\* maxBytes is the limit in the same unit); the clock counts ticks,
\* TicksPerSecond to the second.
SecondsPerDay == 86400
Day == SecondsPerDay * TicksPerSecond

\* max_size_mb and max_age_days as the configuration may give them; config
\* loading checks neither.
SizeLimits == {0, 2}
AgeLimits == {0, 1}

\* What can go wrong in one call: nothing, or the named step fails.
IoFaults == {"ok", "write", "sync", "stat", "close", "rename", "open"}

\* time.Now().UTC().Format("20060102-150405"): the time cut to the second.
Stamp(t) == t \div TicksPerSecond

\* maxBytes := int64(l.maxSizeMB) * 1024 * 1024, in records.
maxBytes(a) == a.maxSizeMB

\* The records on disk: in the active file or in a rotated file.
OnDisk(a) ==
  (IF a.active = None THEN {}
   ELSE {a.active[1].recs[i] : i \in 1..Len(a.active[1].recs)})
  \cup UNION {{a.rotated[n].recs[i] : i \in 1..Len(a.rotated[n].recs)} :
                n \in DOMAIN a.rotated}

\* rotate: close, rename to path.timestamp (os.Rename replaces a file
\* already there), reopen, start the cleanup goroutine.  A failed Close
\* still leaves the handle closed.
Logger_rotate(a, io) ==
  IF io \in {"close", "rename"}
    THEN [a |-> [a EXCEPT !.file = "closed"], ret |-> "err"]
  ELSE LET name == Stamp(a.clock)
           moved == [n \in DOMAIN a.rotated \cup {name} |->
                       IF n = name THEN a.active[1] ELSE a.rotated[n]]
           a1 == [a EXCEPT !.file = "closed", !.rotated = moved, !.active = None]
       IN IF io = "open"
            THEN [a |-> a1, ret |-> "err"]
            ELSE [a |-> [a1 EXCEPT !.file = "open",
                                   !.active = Some([recs |-> <<>>, mtime |-> a.clock]),
                                   !.sweeps = @ + 1],
                  ret |-> "nil"]

\* rotateIfNeeded: Stat the handle, compare with maxBytes, rotate.
Logger_rotateIfNeeded(a, io) ==
  IF a.file = "nil" THEN [a |-> a, ret |-> "nil"]
  ELSE IF a.file = "closed" \/ io = "stat" THEN [a |-> a, ret |-> "err"]
  ELSE IF Len(a.active[1].recs) < maxBytes(a) THEN [a |-> a, ret |-> "nil"]
  ELSE Logger_rotate(a, io)

\* Logger.Log: no-op when disabled or without a file; else Write, Sync,
\* rotateIfNeeded, whose error goes to stderr only.  The record written by
\* this call is a.calls + 1.
Logger_Log(a, io) ==
  LET id == a.calls + 1
      a0 == [a EXCEPT !.calls = id]
  IN IF ~a.enabled \/ a.file = "nil" THEN [a |-> a0, ret |-> "nil", wrote |-> FALSE]
     ELSE IF a.file = "closed" \/ io = "write"
       THEN [a |-> a0, ret |-> "err", wrote |-> FALSE]
     ELSE LET a1 == [a0 EXCEPT !.active =
                       Some([recs |-> Append(a.active[1].recs, id),
                             mtime |-> a.clock])]
          IN IF io = "sync" THEN [a |-> a1, ret |-> "err", wrote |-> FALSE]
             ELSE [a |-> [Logger_rotateIfNeeded(a1, io).a EXCEPT
                            !.written = @ \cup {id}],
                   ret |-> "nil", wrote |-> TRUE]

\* File names are sequences of characters.  filepath.Base(l.filePath):
BaseName == <<"l", "o", "g">>

\* The decimal digits of a number.
RECURSIVE Digits(_)
Digits(n) ==
  LET d == <<"0", "1", "2", "3", "4", "5", "6", "7", "8", "9">>[(n % 10) + 1]
  IN IF n < 10 THEN <<d>> ELSE Append(Digits(n \div 10), d)

\* rotatedPath := l.filePath + "." + timestamp
RotatedName(n) == BaseName \o <<".">> \o Digits(n)

\* The test cleanupOldLogs makes of an entry's name: longer than the base
\* name and beginning with it.
HasBasePrefix(name) ==
  ~(Len(name) <= Len(BaseName) \/ SubSeq(name, 1, Len(BaseName)) # BaseName)

\* The cleanup that removes every file older than now, whatever maxAgeDays.
Logger_cleanupAnyAge(a, unreadable, stuck) ==
  LET gone == IF unreadable THEN {}
              ELSE {n \in DOMAIN a.rotated :
                      /\ HasBasePrefix(RotatedName(n))
                      /\ RotatedName(n) \notin stuck
                      /\ a.rotated[n].mtime < a.clock}
      also == IF unreadable THEN {}
              ELSE {f \in DOMAIN a.others :
                      /\ ~a.others[f].isDir
                      /\ HasBasePrefix(f)
                      /\ f \notin stuck
                      /\ a.others[f].mtime < a.clock}
  IN [a EXCEPT !.rotated = [n \in DOMAIN a.rotated \ gone |-> a.rotated[n]],
               !.others = [f \in DOMAIN a.others \ also |-> a.others[f]],
               !.aged = @ \cup UNION {{a.rotated[n].recs[i] :
                                        i \in 1..Len(a.rotated[n].recs)} : n \in gone}]

\* cleanupOldLogs: every entry of the log directory that is not a directory,
\* whose name is longer than the base name and begins with it, and whose
\* ModTime is before now - maxAgeDays, is removed; stuck is the set of names
\* whose Info or Remove fails, unreadable a failed ReadDir.  The entries are
\* the rotated files and the other entries of the directory; the active file
\* has the base name itself.
Logger_cleanupOldLogs(a, unreadable, stuck) ==
  LET cutoff == a.clock - a.maxAgeDays * Day
      gone == IF unreadable THEN {}
              ELSE {n \in DOMAIN a.rotated :
                      /\ HasBasePrefix(RotatedName(n))
                      /\ RotatedName(n) \notin stuck
                      /\ a.rotated[n].mtime < cutoff}
      also == IF unreadable THEN {}
              ELSE {f \in DOMAIN a.others :
                      /\ ~a.others[f].isDir
                      /\ HasBasePrefix(f)
                      /\ f \notin stuck
                      /\ a.others[f].mtime < cutoff}
  IN [a EXCEPT !.rotated = [n \in DOMAIN a.rotated \ gone |-> a.rotated[n]],
               !.others = [f \in DOMAIN a.others \ also |-> a.others[f]],
               !.aged = @ \cup UNION {{a.rotated[n].recs[i] :
                                        i \in 1..Len(a.rotated[n].recs)} : n \in gone}]

\* NewLogger on a directory: open (or create) the file at the path, then the
\* rotation check of the start.
audit_NewLogger(enabled, size, age, files, t) ==
  LET a == [enabled |-> enabled, maxSizeMB |-> size, maxAgeDays |-> age,
            file |-> IF enabled THEN "open" ELSE "nil",
            active |-> IF ~enabled \/ files.active # None THEN files.active
                       ELSE Some([recs |-> <<>>, mtime |-> t]),
            rotated |-> files.rotated,
            others |-> files.others,
            clock |-> t, calls |-> 0, sweeps |-> 0,
            written |-> {}, aged |-> {}]
  IN IF enabled THEN Logger_rotateIfNeeded(a, "ok").a ELSE a

EmptyDir == [active |-> None, rotated |-> <<>>, others |-> <<>>]

\* A log directory that holds other entries next to the log: a copy of the
\* log kept under a name of its own ("log.b"), a file of another program
\* ("logs"), a file with an unrelated name, and a directory.
OtherEntries ==
  (<<"l", "o", "g", ".", "b">> :> [mtime |-> 0, isDir |-> FALSE])
    @@ (<<"l", "o", "g", "s">> :> [mtime |-> 0, isDir |-> FALSE])
    @@ (<<"n", "o", "t", "e">> :> [mtime |-> 0, isDir |-> FALSE])
    @@ (<<"l", "o", "g", ".", "d">> :> [mtime |-> 0, isDir |-> TRUE])

SharedDir == [active |-> None, rotated |-> <<>>, others |-> OtherEntries]

\* The logger while the terminal program is what is exercised.
AuditAtRest == audit_NewLogger(FALSE, 0, 0, EmptyDir, 0)

\* ------------------------------------------------------------------- Init
\* Settings as config.Load may give them before any change in the program:
\* everything on with the smallest timeouts, the switches on with timeouts
\* of zero, and the switches off.  The settings screen reaches the others,
\* and a nil logger (audit switched off there).
InitConfigs ==
  {[AutoClear |-> TRUE, TimeoutSeconds |-> 1, LockOnTimeout |-> TRUE,
    InactivityTimeout |-> 1, AuditEnabled |-> TRUE],
   [AutoClear |-> TRUE, TimeoutSeconds |-> 0, LockOnTimeout |-> TRUE,
    InactivityTimeout |-> 0, AuditEnabled |-> FALSE],
   [AutoClear |-> FALSE, TimeoutSeconds |-> 1, LockOnTimeout |-> FALSE,
    InactivityTimeout |-> 1, AuditEnabled |-> TRUE]}

\* NewModel: the list view when a project is known, else the prompt.
NewModel(cfg, hasProject, ioErr) ==
  [view |-> IF hasProject THEN "ViewList" ELSE "ViewProjectPrompt",
   previousView |-> "ViewProjectPrompt",
   projectSwitchPrevView |-> "ViewProjectPrompt",
   lockedPrevView |-> "ViewProjectPrompt",
   sessionLocked |-> FALSE,
   secrets |-> {},
   selectedSecret |-> None,
   versions |-> 0,
   loading |-> hasProject,
   revealedValue |-> None,
   generatedCode |-> FALSE,
   clipboardClearAt |-> 0,
   clipboardActive |-> FALSE,
   lastActivity |-> 0,
   auditLogger |-> NewLogger(cfg.AuditEnabled, ioErr),
   config |-> cfg]

\* Model.Init: the session check, and the client unless the prompt is shown.
InitCmds(mm) ==
  [k \in TaskKinds |->
     IF k = "sessionTimeoutTickCmd" THEN 1
     ELSE IF k = "initializeClient" /\ mm.view # "ViewProjectPrompt" THEN 1
     ELSE 0]

Init ==
  /\ \E cfg \in InitConfigs, hasProject \in BOOLEAN :
       m = NewModel(cfg, hasProject, FALSE)
  /\ now = 0
  /\ pending = InitCmds(m)
  /\ clipboard = "empty"
  /\ halted = "run"
  /\ events = 0
  /\ lastCopy = None
  /\ au = AuditAtRest
  /\ tr = TreeAtRest
  /\ vs = VersionsAtRest
  /\ sc = ScrollAtRest

Next ==
  \/ KeyPress
  \/ Mouse
  \/ ClientInitialized
  \/ SecretsLoaded
  \/ VersionsLoaded
  \/ SecretCreated
  \/ SecretDeleted
  \/ VersionAdded
  \/ SecretValue
  \/ CopyTaskRuns
  \/ SecretCopied
  \/ ClearTaskRuns
  \/ ClipboardCleared
  \/ ClipboardTick
  \/ SessionTimeout
  \/ AdvanceTime

Spec == Init /\ [][Next]_vars

\* ------------------------------------------------ the reveal-and-copy run
\* The end-to-end run of the clipboard timer: the user opens a secret,
\* reveals it, copies it once in the reveal view and then waits.
ScenarioKeys == {"enter", "r", "c"}

UserRevealsAndCopies ==
  /\ events < MaxEvents
  /\ \E msg \in KeysIn(m, ScenarioKeys) :
       /\ msg.key = "c" => (m.view = "ViewReveal" /\ lastCopy = None)
       /\ Handle(msg, pending)
  /\ events' = events + 1

\* Time under a running tea.Tick(time.Second) chain: a pending clipboard
\* tick is delivered before more than a second has passed.
TickedTime ==
  /\ halted = "run"
  /\ \/ now % Minute < MaxSmallSteps /\ now' = now + Second
     \/ /\ now \div Minute < MaxBigSteps
        /\ pending["clipboardTickCmd"] = 0
        /\ now' = now + Minute
  /\ UNCHANGED <<m, pending, clipboard, halted, events, lastCopy, libVars>>

ClipNext ==
  \/ UserRevealsAndCopies
  \/ ClientInitialized
  \/ SecretsLoaded
  \/ VersionsLoaded
  \/ SecretValue
  \/ ClearTaskRuns
  \/ ClipboardCleared
  \/ ClipboardTick
  \/ SessionTimeout
  \/ TickedTime

\* The runtime delivers every tick that is due, runs every command it was
\* given and delivers its message, and time passes.
ClipSpec ==
  /\ Init
  /\ [][ClipNext]_vars
  /\ WF_vars(ClipboardTick)
  /\ WF_vars(ClearTaskRuns)
  /\ WF_vars(ClipboardCleared)
  /\ WF_vars(TickedTime)

\* ------------------------------------------------- the audit log on its own
\* The terminal program stands still while the logger is exercised.
UiAtRest ==
  /\ m = NewModel(CHOOSE cfg \in InitConfigs : cfg.AuditEnabled /\ cfg.AutoClear,
                  TRUE, FALSE)
  /\ now = 0
  /\ pending = InitCmds(m)
  /\ clipboard = "empty"
  /\ halted = "run"
  /\ events = 0
  /\ lastCopy = None

AuditInit ==
  /\ UiAtRest
  /\ \E size \in SizeLimits, age \in AgeLimits, files \in {EmptyDir, SharedDir} :
       au = audit_NewLogger(TRUE, size, age, files, 0)
  /\ tr = TreeAtRest
  /\ vs = VersionsAtRest
  /\ sc = ScrollAtRest

\* One call of Logger.Log, with or without a failing step.
AuditWrite ==
  /\ au.calls < MaxLogCalls
  /\ \E io \in IoFaults :
       /\ Logger_Log(au, io).a.sweeps <= MaxSweeps
       /\ au' = Logger_Log(au, io).a
  /\ UNCHANGED <<uiVars, tr, sc, vs>>

\* A cleanup goroutine started by a rotation runs.
AuditSweep ==
  /\ au.sweeps > 0
  /\ \E unreadable \in BOOLEAN,
        stuck \in SUBSET ({RotatedName(n) : n \in DOMAIN au.rotated}
                            \cup {f \in DOMAIN au.others :
                                     ~au.others[f].isDir /\ HasBasePrefix(f)}) :
       au' = [Logger_cleanupOldLogs(au, unreadable, stuck) EXCEPT !.sweeps = @ - 1]
  /\ UNCHANGED <<uiVars, tr, sc, vs>>

\* Time passes: a tick, or a day.
AuditClock ==
  /\ \/ au.clock % Day < MaxAuditTicks /\ au' = [au EXCEPT !.clock = @ + 1]
     \/ au.clock \div Day < MaxAuditDays /\ au' = [au EXCEPT !.clock = @ + Day]
  /\ UNCHANGED <<uiVars, tr, sc, vs>>

AuditNext ==
  \/ AuditWrite
  \/ AuditSweep
  \/ AuditClock

AuditSpec == AuditInit /\ [][AuditNext]_vars

\* --------------------------------------------------- the list on its own
\* The list, filter, settings and project-switch views over the folder tree,
\* with the list responses of the service; the rest of the interface and the
\* audit log stand still.
SecretPool ==
  { <<"a">>, <<"b">>, <<"a", "/", "x">>, <<"a", "/", "y">>, <<"A", "-", "-", "b">> }

\* The list responses: up to MaxSecrets secrets, each name once.
SecretLists ==
  { l \in UNION { [1..n -> SecretPool] : n \in 0..MaxSecrets } :
      \A i \in 1..Len(l) : \A j \in 1..Len(l) : i # j => l[i] # l[j] }

Separators == {"/", "-"}
FilterTexts == { <<>>, <<"b">>, <<"B">>, <<"x">> }
TreeKeys ==
  {"up", "down", "enter", "esc", "/", "n", "d", "x", "ctrl+r", "ctrl+s", "ctrl+p",
   "q", "ctrl+c"}

TreeInputs(t, key) ==
  CASE t.view = "ViewFilter" /\ key = "x" ->
         {[filter |-> f, sep |-> "", sel |-> "none"] : f \in FilterTexts}
    [] t.view = "ViewConfigBasic" /\ key = "enter" ->
         {[filter |-> <<>>, sep |-> p, sel |-> "none"] : p \in Separators \cup {""}}
    [] t.view = "ViewProjectSwitch" /\ key = "enter" ->
         {[filter |-> <<>>, sep |-> "", sel |-> x] : x \in {"new", "same", "none"}}
    [] OTHER -> {[filter |-> <<>>, sep |-> "", sel |-> "none"]}

TreeInit ==
  /\ UiAtRest
  /\ au = AuditAtRest
  /\ vs = VersionsAtRest
  /\ sc = ScrollAtRest
  /\ \E sep \in Separators : tr = NewBrowser(sep)

TreeClientInitialized ==
  /\ tr.running /\ tr.inits > 0
  /\ \E err \in BOOLEAN : tr' = browseClientInitialized(tr, err)
  /\ UNCHANGED <<uiVars, au, sc, vs>>

TreeSecretsLoaded ==
  /\ tr.running /\ tr.loads > 0
  /\ \/ tr' = browseSecretsLoaded(tr, TRUE, <<>>, "asc")
     \/ \E secrets \in SecretLists : \E order \in MapOrders :
          tr' = browseSecretsLoaded(tr, FALSE, secrets, order)
  /\ UNCHANGED <<uiVars, au, sc, vs>>

TreeKey ==
  /\ tr.running /\ tr.keys < MaxTreeKeys
  /\ \E key \in TreeKeys : \E inp \in TreeInputs(tr, key) : \E order \in MapOrders :
       LET t == browseKey(tr, key, inp, order)
       IN /\ t.issued <= MaxLoads
          /\ tr' = [t EXCEPT !.keys = @ + 1]
  /\ UNCHANGED <<uiVars, au, sc, vs>>

TreeNext == TreeClientInitialized \/ TreeSecretsLoaded \/ TreeKey

TreeSpec == TreeInit /\ [][TreeNext]_vars

\* ------------------------------------------------ the scrolling on its own
\* The list view's cursor and scroll offset under keys, list responses,
\* filter changes and window sizes.
Heights == {0, 16, 17}
ScrollKeys ==
  {"up", "down", "g", "G", "enter", "esc", "/", "x", "ctrl+r", "ctrl+p"}

\* What a listing may find: up to MaxItems items, or, below the root, a
\* path segment that is absent.
Found(depth) ==
  {[n |-> k, absent |-> FALSE] : k \in 0..MaxItems}
    \cup (IF depth > 0 THEN {[n |-> 0, absent |-> TRUE]} ELSE {})

ScrollInputs(s, key) ==
  CASE s.view = "ViewList" /\ key \in {"enter", "l"} ->
         {[item |-> "leaf", found |-> [n |-> 0, absent |-> FALSE],
           filtered |-> FALSE, sel |-> "none"]}
           \cup {[item |-> "folder", found |-> f, filtered |-> FALSE, sel |-> "none"] :
                   f \in IF s.depth < MaxDepth THEN Found(s.depth + 1) ELSE {}}
    [] s.view = "ViewList" /\ key \in {"backspace", "h", "esc"} ->
         {[item |-> "leaf", found |-> f, filtered |-> FALSE, sel |-> "none"] :
            f \in Found(IF s.depth > 0 THEN s.depth - 1 ELSE 0)}
    [] s.view = "ViewFilter" /\ key \in {"enter", "esc"} ->
         {[item |-> "leaf", found |-> f, filtered |-> s.filtered, sel |-> "none"] :
            f \in Found(s.depth)}
    [] s.view = "ViewFilter" ->
         {[item |-> "leaf", found |-> f, filtered |-> b, sel |-> "none"] :
            f \in Found(s.depth), b \in BOOLEAN}
    [] s.view = "ViewProjectSwitch" /\ key = "enter" ->
         {[item |-> "leaf", found |-> [n |-> 0, absent |-> FALSE],
           filtered |-> FALSE, sel |-> x] : x \in {"new", "same", "none"}}
    [] OTHER ->
         {[item |-> "leaf", found |-> [n |-> 0, absent |-> FALSE],
           filtered |-> FALSE, sel |-> "none"]}

ScrollInit ==
  /\ UiAtRest
  /\ au = AuditAtRest
  /\ tr = TreeAtRest
  /\ vs = VersionsAtRest
  /\ sc = NewScroller

ScrollKey ==
  /\ \E key \in ScrollKeys : \E inp \in ScrollInputs(sc, key) :
       LET s == scrollKey(sc, key, inp)
       IN s.issued <= MaxLoads /\ sc' = s
  /\ UNCHANGED <<uiVars, au, tr, vs>>

ScrollWindowSize ==
  /\ \E height \in Heights : sc' = scrollWindowSize(sc, height)
  /\ UNCHANGED <<uiVars, au, tr, vs>>

ScrollClientInitialized ==
  /\ sc.inits > 0
  /\ \E err \in BOOLEAN : sc' = scrollClientInitialized(sc, err)
  /\ UNCHANGED <<uiVars, au, tr, vs>>

ScrollSecretsLoaded ==
  /\ sc.loads > 0
  /\ \E err \in BOOLEAN : \E found \in Found(sc.depth) :
       sc' = scrollSecretsLoaded(sc, err, found)
  /\ UNCHANGED <<uiVars, au, tr, vs>>

ScrollNext ==
  ScrollKey \/ ScrollWindowSize \/ ScrollClientInitialized \/ ScrollSecretsLoaded

ScrollSpec == ScrollInit /\ [][ScrollNext]_vars

\* ------------------------------------------------- the version list alone
\* The detail view's version list: keys, and the answers of the commands in
\* flight in any order.
MaxVersionCount == 3
MaxVersionTasks == 5

VersionKeys == {"up", "down", "enter", "esc", "r", "c", "a", "ctrl+p", "ctrl+r"}

\* What a key finds: the secret under the list cursor, the text of the value
\* field, the entry of the project list.
VersionInputs(s, key) ==
  CASE key = "ctrl+p" -> {[item |-> "A", text |-> "", sel |-> "none"]}
    [] s.view = "ViewList" /\ key = "enter" ->
         {[item |-> x, text |-> "", sel |-> "none"] : x \in VersionNames}
    [] s.view = "ViewAddVersion" /\ key = "enter" ->
         {[item |-> "A", text |-> x, sel |-> "none"] : x \in {"", "v"}}
    [] s.view = "ViewProjectSwitch" /\ key = "enter" ->
         {[item |-> "A", text |-> "", sel |-> x] : x \in {"new", "same", "none"}}
    [] OTHER -> {[item |-> "A", text |-> "", sel |-> "none"]}

VersionsInit ==
  /\ UiAtRest
  /\ au = AuditAtRest
  /\ tr = TreeAtRest
  /\ sc = ScrollAtRest
  /\ \E counts \in [VersionNames -> 1..(MaxVersionCount - 1)] : vs = NewVersions(counts)

VersionsKey ==
  /\ ~vs.fault
  /\ \E key \in VersionKeys : \E inp \in VersionInputs(vs, key) :
       LET s == versKey(vs, key, inp)
       IN s.issued <= MaxVersionTasks /\ vs' = s
  /\ UNCHANGED <<uiVars, au, tr, sc>>

VersionsClientInitialized ==
  /\ ~vs.fault
  /\ vs.inits > 0
  /\ \E err \in BOOLEAN : vs' = versClientInitialized(vs, err)
  /\ UNCHANGED <<uiVars, au, tr, sc>>

VersionsSecretsLoaded ==
  /\ ~vs.fault
  /\ vs.loads > 0
  /\ \E err \in BOOLEAN : vs' = versSecretsLoaded(vs, err)
  /\ UNCHANGED <<uiVars, au, tr, sc>>

VersionListLoaded ==
  /\ ~vs.fault
  /\ \E name \in VersionNames :
       /\ vs.loadVersions[name] > 0
       /\ \E err \in BOOLEAN : vs' = versVersionsLoaded(vs, name, err)
  /\ UNCHANGED <<uiVars, au, tr, sc>>

VersionsAdded ==
  /\ ~vs.fault
  /\ \E name \in VersionNames :
       /\ vs.addVersion[name] > 0
       /\ \E err \in BOOLEAN :
            /\ err \/ vs.count[name] < MaxVersionCount
            /\ vs' = versVersionAdded(vs, name, err)
  /\ UNCHANGED <<uiVars, au, tr, sc>>

VersionsSecretValue ==
  /\ ~vs.fault
  /\ vs.reads > 0
  /\ \E err \in BOOLEAN : vs' = versSecretValue(vs, err)
  /\ UNCHANGED <<uiVars, au, tr, sc>>

VersionsSecretCopied ==
  /\ ~vs.fault
  /\ vs.copies > 0
  /\ vs' = versSecretCopied(vs)
  /\ UNCHANGED <<uiVars, au, tr, sc>>

VersionsNext ==
  \/ VersionsKey
  \/ VersionsClientInitialized
  \/ VersionsSecretsLoaded
  \/ VersionListLoaded
  \/ VersionsAdded
  \/ VersionsSecretValue
  \/ VersionsSecretCopied

VersionsSpec == VersionsInit /\ [][VersionsNext]_vars

\* ================================================================ properties
\* Update is a function of the model and the message, so a property of one
\* step is stated in the state the message is handled in, over every message
\* of a kind, whether or not one of them is in flight.
UserMsgs == KeysIn(m, KeyNames) \cup {Msg("MouseMsg")}
AsyncMsgs == UNION {MsgsOf(k) : k \in TaskKinds}
AllMsgs == UserMsgs \cup AsyncMsgs
SessionCheck == Msg("sessionTimeoutMsg")

\* The step did nothing outside the model it returned.
Silent(r) ==
  /\ r.cmds = <<>>
  /\ r.log = <<>>
  /\ r.clip = "keep"
  /\ r.freed = <<>>
  /\ r.halt = "run"

\* The model after a message that only counted as activity.
Touched(mm) == [mm EXCEPT !.lastActivity = now]

\* What reaches the audit file when the event is logged through the logger.
Written(logger, type) ==
  IF logger = "enabled" THEN <<[type |-> type, result |-> "SUCCESS"]>> ELSE <<>>

\* Every byte of every released buffer is zero.
AllZero(freed) ==
  \A i \in 1..Len(freed) : \A j \in 1..Len(freed[i]) : freed[i][j] = 0

\* ----------------------------------------------------------------------- C1
\* C1, as stated: in every reachable state a revealed secret value is held
\* only while the active view is the reveal or the detail view.
C1_RevealedOnlyInRevealOrDetail ==
  m.revealedValue # None => m.view \in {"ViewReveal", "ViewDetail"}

C3_LockClearsAndRecords ==
  LET r == Update(m, SessionCheck)
  IN (~m.sessionLocked /\ r.m.sessionLocked) =>
       /\ r.m.view = "ViewLocked"
       /\ r.m.lockedPrevView = m.view
       /\ r.m.revealedValue = None
       /\ AllZero(r.freed)
       /\ m.revealedValue # None =>
            Len(r.freed) = 1 /\ Len(r.freed[1]) = Len(m.revealedValue[1])
       /\ m.clipboardActive => r.clip = "clear"
       /\ ~r.m.clipboardActive
       /\ r.log = Written(m.auditLogger, "SESSION_LOCK")

\* C3: a check is due that locks a session which holds a revealed value and
\* a pending copy, with the audit logger enabled.
C3_Witness ==
  /\ halted = "run"
  /\ pending["sessionTimeoutTickCmd"] > 0
  /\ ~m.sessionLocked
  /\ Update(m, SessionCheck).m.sessionLocked
  /\ m.revealedValue # None /\ Len(m.revealedValue[1]) > 0
  /\ m.clipboardActive /\ clipboard = "secret"
  /\ m.auditLogger = "enabled"

\* ----------------------------------------------------------------------- C4
\* C4, amended: a session check handled while unlocked locks the session
\* exactly when lock-on-timeout is enabled, the threshold M is positive and
\* now minus last-activity is more than M minutes.
C4_LocksWhenThresholdExceeded ==
  ~m.sessionLocked =>
    (Update(m, SessionCheck).m.sessionLocked <=>
       /\ m.config.LockOnTimeout
       /\ m.config.InactivityTimeout > 0
       /\ now - m.lastActivity > m.config.InactivityTimeout * Minute)

\* C4, as stated: with lock-on-timeout enabled and a threshold of M > 0
\* minutes, a check handled while unlocked with now minus last-activity at
\* least M minutes (exactly M included) locks the session.
C4_LocksAtThreshold ==
  (/\ ~m.sessionLocked
   /\ m.config.LockOnTimeout
   /\ m.config.InactivityTimeout > 0
   /\ now - m.lastActivity >= m.config.InactivityTimeout * Minute)
    => Update(m, SessionCheck).m.sessionLocked

\* C4: a check is due after more than M minutes without activity, and it
\* locks.
C4_Witness ==
  /\ halted = "run"
  /\ pending["sessionTimeoutTickCmd"] > 0
  /\ ~m.sessionLocked
  /\ m.config.LockOnTimeout /\ m.config.InactivityTimeout > 0
  /\ now - m.lastActivity > m.config.InactivityTimeout * Minute
  /\ Update(m, SessionCheck).m.view = "ViewLocked"

\* ----------------------------------------------------------------------- C5
\* C5: a session check handled while the session is locked changes nothing
\* of the model (view, recorded prior view, vault, clipboard flag), writes no
\* audit event, touches neither the clipboard nor a buffer, and emits only
\* the next check.
C5_CheckWhileLockedIsNoOp ==
  m.sessionLocked =>
    LET r == Update(m, SessionCheck)
    IN /\ r.m = m
       /\ r.log = <<>> /\ r.clip = "keep" /\ r.freed = <<>> /\ r.halt = "run"
       /\ r.cmds = <<Cmd("sessionTimeoutTickCmd", "")>>

\* C5: a check is due while the session is locked and the inactivity test
\* still passes.
C5_Witness ==
  /\ halted = "run"
  /\ pending["sessionTimeoutTickCmd"] > 0
  /\ m.sessionLocked
  /\ m.config.LockOnTimeout /\ m.config.InactivityTimeout > 0
  /\ now - m.lastActivity > m.config.InactivityTimeout * Minute

\* ----------------------------------------------------------------------- C6
\* C6: while locked, only the unlock keys clear the lock flag, and they
\* restore the recorded view, set last-activity to now and log
\* SESSION_UNLOCK once (written when the audit logger is enabled); no
\* pointer event, timer tick or completion unlocks; and the recorded view is
\* written by nothing but a check that locks.
C6_UnlockOnlyByUnlockKey ==
  /\ m.sessionLocked =>
       \A msg \in AllMsgs :
         LET r == Update(m, msg)
         IN IF msg.type = "KeyMsg" /\ msg.key \in {"enter", " "}
              THEN /\ ~r.m.sessionLocked
                   /\ r.m.view = m.lockedPrevView
                   /\ r.m.lastActivity = now
                   /\ r.log = Written(m.auditLogger, "SESSION_UNLOCK")
              ELSE r.m.sessionLocked
  /\ \A msg \in AllMsgs :
       LET r == Update(m, msg)
       IN r.m.lockedPrevView # m.lockedPrevView =>
            msg = SessionCheck /\ ~m.sessionLocked /\ r.m.sessionLocked

\* C6: the session was locked in the detail view and has been unlocked.
C6_Witness ==
  /\ ~m.sessionLocked
  /\ m.lockedPrevView = "ViewDetail" /\ m.view = "ViewDetail"
  /\ m.lastActivity = now /\ now > Minute

\* ----------------------------------------------------------------------- C7
\* C7: every key or pointer message leaves last-activity equal to the
\* current time, locked or not; timer ticks and completion messages leave
\* last-activity as it was.
C7_ActivityTrackedForUserInputOnly ==
  /\ \A msg \in UserMsgs : Update(m, msg).m.lastActivity = now
  /\ \A msg \in AsyncMsgs : Update(m, msg).m.lastActivity = m.lastActivity

\* C7: a key or pointer event is about to be handled in a locked session
\* whose last activity lies in the past.
C7_Witness ==
  /\ halted = "run" /\ events < MaxEvents
  /\ m.sessionLocked /\ m.lastActivity < now
  /\ Update(m, KeyMsg("x", DefaultInp)).m = Touched(m)

\* ----------------------------------------------------------------------- C8
\* C8: exactly one session check is pending in every reachable state; a
\* handled check emits exactly one check, and no other message emits one.
C8_OneSessionCheckPending ==
  /\ pending["sessionTimeoutTickCmd"] = 1
  /\ \A msg \in AllMsgs :
       CountOf(Update(m, msg).cmds, "sessionTimeoutTickCmd")
         = IF msg = SessionCheck THEN 1 ELSE 0

\* C8: the check chain has run on through a lock: a check is pending in a
\* locked session.
C8_Witness ==
  /\ halted = "run"
  /\ m.sessionLocked /\ m.view = "ViewLocked"
  /\ pending["sessionTimeoutTickCmd"] = 1

C10_OneClipboardTickPending == pending["clipboardTickCmd"] <= 1

\* ---------------------------------------------------------------------- C11
\* The copy in the reveal view with auto-clear on and a timeout T > 0 shows
\* the countdown and starts the timer; a tick before the deadline shows the
\* countdown; and the timer is deactivated only by the clear completion,
\* which logs CLIPBOARD_CLEAR (written when the audit logger is enabled), or
\* by a session check that locks and clears the clipboard itself.
C11_CountdownAndAuditedClear ==
  /\ (/\ ~m.sessionLocked /\ m.view = "ViewReveal"
      /\ Len(getRevealedValueString(m)) > 0
      /\ m.config.AutoClear /\ m.config.TimeoutSeconds > 0) =>
       LET r == Update(m, KeyMsg("c", DefaultInp))
       IN /\ r.status = "Copied! Auto-clear in"
          /\ r.clip = "secret"
          /\ r.m.clipboardActive
          /\ r.m.clipboardClearAt = now + m.config.TimeoutSeconds * Second
          /\ r.cmds = <<Cmd("clipboardTickCmd", "")>>
  /\ (m.clipboardActive /\ now < m.clipboardClearAt) =>
       Update(m, Msg("clipboardTickMsg")).status = "Clipboard will clear in"
  /\ m.clipboardActive =>
       \A msg \in AllMsgs :
         LET r == Update(m, msg)
         IN ~r.m.clipboardActive =>
              \/ /\ msg = Msg("clipboardClearMsg")
                 /\ r.log = Written(m.auditLogger, "CLIPBOARD_CLEAR")
              \/ msg = SessionCheck /\ r.m.sessionLocked /\ r.clip = "clear"

\* A copy is on the clipboard, its timer runs and its deadline lies within
\* the modelled clock.
C11_TimerRunning ==
  /\ halted = "run"
  /\ m.clipboardActive
  /\ clipboard = "secret"
  /\ m.clipboardClearAt <= (now \div Minute) * Minute + MaxSmallSteps * Second

C11_ClearedAndInactive == clipboard = "empty" /\ ~m.clipboardActive

\* The clear task has run and its completion, whose handling writes the
\* CLIPBOARD_CLEAR event, is on its way to Update.
C11_ClearCompletionInFlight ==
  /\ pending["clipboardClearMsg"] > 0
  /\ Update(m, Msg("clipboardClearMsg")).log =
       Written(m.auditLogger, "CLIPBOARD_CLEAR")

C12_TimerIffAutoClearAndPositive ==
  \A msg \in AllMsgs :
    LET r == Update(m, msg)
        wanted == m.config.AutoClear /\ m.config.TimeoutSeconds > 0
    IN copySucceeded(msg, r) =>
         /\ CountOf(r.cmds, "clipboardTickCmd") > 0 <=> wanted
         /\ wanted =>
              /\ r.cmds = <<Cmd("clipboardTickCmd", "")>>
              /\ r.m.clipboardActive
              /\ r.m.clipboardClearAt = now + m.config.TimeoutSeconds * Second

\* ---------------------------------------------------------------------- C13
\* C13: with the audit logger enabled, every clearing of the clipboard by the
\* program is recorded by a CLIPBOARD_CLEAR event: the completion of the
\* timer's clear task writes it, and so does every Update that clears the
\* clipboard itself (the session lock with a copy still pending).
C13_EveryClearAudited ==
  m.auditLogger = "enabled" =>
    /\ Update(m, Msg("clipboardClearMsg")).log =
         Written(m.auditLogger, "CLIPBOARD_CLEAR")
    /\ \A msg \in AllMsgs :
         LET r == Update(m, msg)
         IN r.clip = "clear" =>
              \E i \in 1..Len(r.log) : r.log[i].type = "CLIPBOARD_CLEAR"

\* ---------------------------------------------------------------------- C14
\* C14: in every state (any view, locked or not, loading or not) the quit
\* combination ctrl+c terminates the program at once: Update returns the
\* model with only the activity time touched and tea.Quit as its only task;
\* nothing is logged, copied, cleared or released.
C14_QuitFromEverywhere ==
  \A inp \in InputsFor(m, "ctrl+c") :
    Update(m, KeyMsg("ctrl+c", inp)) = Quit(Touched(m))

\* C14: the program has ended while a remote task was still loading, in a
\* view other than the list.
C14_Witness == halted = "quit" /\ m.loading /\ m.view = "ViewDetail"

CompletionTypes ==
  {"secretsLoadedMsg", "versionsLoadedMsg", "secretCreatedMsg",
   "secretDeletedMsg", "versionAddedMsg", "secretValueMsg", "secretCopiedMsg"}

ErrorStatus(type) ==
  CASE type = "secretsLoadedMsg" -> "Error loading secrets"
    [] type = "versionsLoadedMsg" -> "Error loading versions"
    [] type = "secretCreatedMsg" -> "Error creating secret"
    [] type = "secretDeletedMsg" -> "Error deleting secret"
    [] type = "versionAddedMsg" -> "Error adding version"
    [] type = "secretValueMsg" -> "Error accessing secret"
    [] type = "secretCopiedMsg" -> "Error copying"

\* C16: for every completion message that carries an error (list, versions,
\* create, delete, add-version, value access, copy), in every state, Update
\* sets the operation's error status, changes nothing of the model but the
\* loading flag (view, secrets, versions and revealed bytes stay), emits no
\* task, touches no clipboard and releases no buffer.
C16_ErrorCompletionKeepsState ==
  \A msg \in AsyncMsgs :
    (msg.type \in CompletionTypes /\ msg.err) =>
      LET r == Update(m, msg)
      IN /\ r.status = ErrorStatus(msg.type)
         /\ r.m = [m EXCEPT !.loading = FALSE]
         /\ r.cmds = <<>>
         /\ r.clip = "keep" /\ r.freed = <<>> /\ r.halt = "run"

\* C16: a version load is in flight in the detail view of a listed secret
\* whose versions are held, and may fail.
C16_Witness ==
  /\ halted = "run"
  /\ pending["loadVersions"] > 0
  /\ m.view = "ViewDetail" /\ m.versions > 0 /\ m.secrets # {}
  /\ Update(m, [Msg("versionsLoadedMsg") EXCEPT !.err = TRUE]).status =
       "Error loading versions"

\* ---------------------------------------------------------------------- C17
\* C17: in every state, a successful create or delete completion sets the
\* view to the list view and emits exactly one list-reload task and no other
\* task, and a successful value-access completion stores the payload as the
\* revealed bytes and sets the view to the reveal view.
C17_SuccessCompletionMoves ==
  \A msg \in AsyncMsgs :
    LET r == Update(m, msg)
    IN ~msg.err =>
         /\ msg.type \in {"secretCreatedMsg", "secretDeletedMsg"} =>
              /\ r.m.view = "ViewList"
              /\ r.cmds = <<Cmd("loadSecrets", "")>>
         /\ msg.type = "secretValueMsg" =>
              /\ r.m.revealedValue = Some(msg.value)
              /\ getRevealedValueString(r.m) = msg.value
              /\ r.m.view = "ViewReveal"

\* C17: a create is in flight with its form still on screen, and its
\* successful completion shows the list and reloads it.
C17_Witness ==
  /\ halted = "run"
  /\ pending["createSecret"] > 0 /\ m.view = "ViewCreate"
  /\ Update(m, Msg("secretCreatedMsg")).m.view = "ViewList"

\* ---------------------------------------------------------------------- C18
\* The submissions that fail local validation in the current state, each with
\* the status the view shows for it: an empty secret name on create (enter in
\* the plain form, ctrl+s anywhere but the new-location input), an empty
\* value on add-version, an empty project ID on the prompt.
InvalidSubmissions ==
  IF m.sessionLocked THEN {}
  ELSE CASE m.view = "ViewCreate" ->
              {[msg |-> KeyMsg(p[1], [DefaultInp EXCEPT !.mode = p[2]]),
                status |-> "Secret name is required"] :
                 p \in {<<"enter", "form">>, <<"ctrl+s", "form">>,
                        <<"ctrl+s", "editorValue">>, <<"ctrl+s", "addLoc">>}}
         [] m.view = "ViewAddVersion" ->
              {[msg |-> KeyMsg("enter", DefaultInp), status |-> "Value is required"]}
         [] m.view = "ViewProjectPrompt" ->
              {[msg |-> KeyMsg("enter", DefaultInp), status |-> "Project ID is required"]}
         [] OTHER -> {}

\* C18: a submission that fails local validation only sets the status
\* message: apart from the activity time the model is unchanged (same view,
\* loading flag not set), no task is emitted and no audit event is written.
C18_InvalidSubmissionOnlySetsStatus ==
  \A s \in InvalidSubmissions :
    LET r == Update(m, s.msg)
    IN /\ s.msg.inp.text = ""
       /\ r.status = s.status
       /\ r.m = Touched(m)
       /\ r.cmds = <<>> /\ r.log = <<>>
       /\ r.clip = "keep" /\ r.freed = <<>> /\ r.halt = "run"

\* C18: the create form is on screen, nothing is loading, the audit logger is
\* enabled, and the user can submit it with an empty name.
C18_Witness ==
  /\ halted = "run" /\ events < MaxEvents
  /\ m.view = "ViewCreate" /\ ~m.loading /\ m.auditLogger = "enabled"
  /\ InvalidSubmissions # {}
  /\ \A s \in InvalidSubmissions : s.msg \in KeysIn(m, KeyNames)

\* ---------------------------------------------------------------------- C19
\* C19: cancelling the delete confirmation returns to the view that invoked
\* it: pressing d in the detail view and then n or esc shows the detail view
\* again, and pressing d on a secret in the list view and then n or esc shows
\* the list view again.
C19_CancelDeleteReturnsToInvoker ==
  (/\ ~m.sessionLocked
   /\ m.view \in {"ViewDetail", "ViewList"}) =>
    \A inp \in InputsFor(m, "d") :
      LET asked == Update(m, KeyMsg("d", inp)).m
      IN asked.view = "ViewDelete" =>
           \A k \in {"n", "esc"} :
             Update(asked, KeyMsg(k, DefaultInp)).m.view = m.view

C21_ClearZeroesAndEmpties ==
  LET c == clearRevealedValue(m)
  IN /\ c.m = [m EXCEPT !.revealedValue = None]
     /\ getRevealedValueString(c.m) = <<>>
     /\ AllZero(c.freed)
     /\ m.revealedValue # None =>
          /\ Len(c.freed) = 1
          /\ Len(c.freed[1]) = Len(m.revealedValue[1])
     /\ m.revealedValue = None => c = [m |-> m, freed |-> <<>>]
     /\ clearRevealedValue(c.m) = [m |-> c.m, freed |-> <<>>]

\* C21: the reveal view holds a value with a non-zero byte and the session
\* check that is due clears it.
C21_Witness ==
  /\ halted = "run"
  /\ m.view = "ViewReveal"
  /\ m.revealedValue # None /\ ~AllZero(<<m.revealedValue[1]>>)
  /\ pending["sessionTimeoutTickCmd"] > 0 /\ shouldLock(m)
  /\ clearRevealedValue(m).freed = <<Zeroed(m.revealedValue[1])>>

\* ---------------------------------------------------------------------- C22
\* C22: a write through an open logger, no step failing, that brings the
\* active file to or above the maximum size rotates once: afterwards the
\* active file is empty, exactly one new file, named by the timestamp, holds
\* the previous contents with the record just written, and the files rotated
\* earlier are as they were; a write that keeps the size below the maximum
\* appends the record and rotates nothing.
C22_RotationAtMaximumSize ==
  (au.enabled /\ au.file = "open") =>
    LET r == Logger_Log(au, "ok").a
        filled == Append(au.active[1].recs, au.calls + 1)
        new == DOMAIN r.rotated \ DOMAIN au.rotated
    IN IF Len(filled) >= maxBytes(au)
         THEN /\ r.file = "open"
              /\ r.active # None /\ r.active[1].recs = <<>>
              /\ Cardinality(new) = 1
              /\ \A n \in new : n = Stamp(au.clock) /\ r.rotated[n].recs = filled
              /\ \A n \in DOMAIN au.rotated : r.rotated[n] = au.rotated[n]
              /\ r.sweeps = au.sweeps + 1
         ELSE /\ r.active[1].recs = filled
              /\ r.rotated = au.rotated
              /\ r.sweeps = au.sweeps

\* ---------------------------------------------------------------------- C23
\* C23: through an enabled logger, a write whose rotation fails (Stat, Close,
\* Rename or the reopening) still returns nil with its record on disk; and
\* in every state the logger can be in afterwards, a call of Log in which no
\* step fails returns nil and its record is either on disk or the call
\* changed nothing (a no-op).
C23_RotationFailureNeverSurfaces ==
  au.enabled =>
    LET id == au.calls + 1
        later == Logger_Log(au, "ok")
    IN /\ au.file = "open" =>
            \A io \in {"stat", "close", "rename", "open"} :
              LET r == Logger_Log(au, io)
              IN r.ret = "nil" /\ id \in OnDisk(r.a)
       /\ later.ret = "nil"
       /\ id \in OnDisk(later.a) \/ later.a = [au EXCEPT !.calls = id]

\* ---------------------------------------------------------------------- C24
\* C24: every record that Log has written with success is still on disk, in
\* the active file or in a rotated file, unless a cleanup pass removed its
\* file for age; a rotation never replaces a file rotated earlier.
C24_RecordsKeptUntilAged ==
  /\ au.written \subseteq OnDisk(au) \cup au.aged
  /\ \A io \in IoFaults :
       LET r == Logger_Log(au, io).a
       IN \A n \in DOMAIN au.rotated :
            n \in DOMAIN r.rotated /\ r.rotated[n] = au.rotated[n]

\* ---------------------------------------------------------------------- C25
\* C25: in every state, a cleanup pass that can read the directory and
\* remove files removes every rotated file whose modification time is more
\* than maxAgeDays days old and keeps, unchanged, every rotated file whose
\* modification time is less than that old; it leaves the active file alone
\* and adds no file.
C25_CleanupByAge ==
  LET r == Logger_cleanupOldLogs(au, FALSE, {})
      age(n) == au.clock - au.rotated[n].mtime
  IN /\ \A n \in DOMAIN au.rotated :
          /\ age(n) > au.maxAgeDays * Day => n \notin DOMAIN r.rotated
          /\ age(n) < au.maxAgeDays * Day =>
               n \in DOMAIN r.rotated /\ r.rotated[n] = au.rotated[n]
     /\ DOMAIN r.rotated \subseteq DOMAIN au.rotated
     /\ r.active = au.active /\ r.file = au.file

\* C25: a cleanup pass is due with a retention of one day, over a rotated
\* file that is older and a rotated file that is newer.
C25_Witness ==
  /\ au.sweeps > 0 /\ au.maxAgeDays = 1
  /\ \E n \in DOMAIN au.rotated : au.clock - au.rotated[n].mtime > Day
  /\ \E n \in DOMAIN au.rotated : au.clock - au.rotated[n].mtime < Day

\* ---- C26
\* The "Save & Exit" entry of the settings menu, which rebuilds the tree.
Rebuilt(t, order) ==
  browseConfigMenu([t EXCEPT !.view = "ViewConfigMenu", !.configMenuCursor = 4],
                   "enter", order)

\* The leaves of a tree: the nodes below the root that are not folders.
Leaves(tree) == {q \in DOMAIN tree : q # <<>> /\ ~tree[q].IsFolder}

\* Every leaf references a secret of the list and carries its identifier as
\* full path, and splitting and joining it by the separator gives it back.
LeavesNameSecrets(tree, secrets, sep) ==
  \A q \in Leaves(tree) :
    /\ tree[q].Secret # None
    /\ tree[q].Secret[1] \in 1..Len(secrets)
    /\ tree[q].FullPath = secrets[tree[q].Secret[1]]
    /\ Join(Split(tree[q].FullPath, sep), sep) = secrets[tree[q].Secret[1]]

\* C26: for the list and the separator of every reachable state, building
\* the tree a second time gives the tree of the first build, whatever the
\* tree, path, filter and map order before, and every leaf's full path is
\* the identifier of the secret it references.
C26_RebuildSameAndLeavesNameSecrets ==
  /\ \A o1 \in MapOrders : \A o2 \in MapOrders :
       /\ Rebuilt(Rebuilt(tr, o1), o2).folderTree = Rebuilt(tr, o1).folderTree
       /\ Rebuilt(tr, o1).folderTree = buildFolderTree(tr.secrets, tr.sep)
  /\ LeavesNameSecrets(buildFolderTree(tr.secrets, tr.sep), tr.secrets, tr.sep)
  /\ \A q \in Leaves(tr.folderTree) :
       /\ tr.folderTree[q].Secret # None
       /\ tr.folderTree[q].FullPath = tr.secrets[tr.folderTree[q].Secret[1]]

\* C26 witness: a list of MaxSecrets secrets was loaded and built into a
\* tree with a leaf below a folder whose identifier has an empty part.
C26_Witness ==
  /\ Len(tr.secrets) = MaxSecrets
  /\ tr.sep = "-"
  /\ <<<<"A">>, <<"b">>>> \in Leaves(tr.folderTree)
  /\ tr.folderTree[<<<<"A">>, <<"b">>>>].FullPath = <<"A", "-", "-", "b">>
  /\ tr.folderTree[<<<<"A">>>>].IsFolder

\* ---- C27
\* The parts of an identifier the build keeps: the non-empty ones.
KeptParts(name, sep) == SelectSeq(Split(name, sep), LAMBDA part : part # <<>>)

\* short, followed by the separator, begins long.
IsFolderOf(short, long, sep) ==
  /\ Len(long) > Len(short) + 1
  /\ SubSeq(long, 1, Len(short) + 1) = short \o <<sep>>

\* C27: when the list holds a secret whose identifier, followed by the
\* separator, begins the identifier of another secret, the node of that name
\* in the tree built from the list is a folder and carries no secret,
\* whatever the order of the two in the list.
C27_PrefixSecretIsFolder ==
  LET tree == buildFolderTree(tr.secrets, tr.sep)
  IN \A i \in 1..Len(tr.secrets) : \A j \in 1..Len(tr.secrets) :
       IsFolderOf(tr.secrets[i], tr.secrets[j], tr.sep) =>
         LET q == KeptParts(tr.secrets[i], tr.sep)
         IN /\ q \in DOMAIN tree
            /\ tree[q].IsFolder
            /\ tree[q].Secret = None

\* ---- C28
\* list(path, filter) on the tree of t: the items updateDisplayItems leaves.
Listing(t, path, filter, order) ==
  updateDisplayItems([t EXCEPT !.currentPath = path, !.filterText = filter],
                     order).displayItems

\* The name holds the filter when upper and lower case count as the same.
SameLetter(c, d) == ToLower(<<c>>) = ToLower(<<d>>)

Matches(name, filter) ==
  \E i \in 1..(Len(name) - Len(filter) + 1) :
    \A k \in 1..Len(filter) : SameLetter(name[i + k - 1], filter[k])

\* The paths asked for: every node of the tree, and below each a segment
\* that is absent.
Absent == <<"y", "y">>
AskedPaths(tree) == DOMAIN tree \cup {Append(q, Absent) : q \in DOMAIN tree}

Names(items) == [k \in 1..Len(items) |-> items[k].Name]

ExampleSecrets == { <<"a", "/", "x">>, <<"a", "/", "y">>, <<"b">> }

\* C28: on the tree of every reachable state, listing a path with a filter
\* gives nothing when a segment is absent and otherwise exactly the direct
\* children of the node whose name holds the filter without regard to case,
\* each once, folders before leaves and by name within each group, whatever
\* the order of the map; and for the secrets a/x, a/y, b the root lists
\* folder a then leaf b, path a lists leaves x then y, filter b on the root
\* lists b alone.
C28_ListingOfPath ==
  /\ \A path \in AskedPaths(tr.folderTree) : \A filter \in FilterTexts :
     \A order \in MapOrders :
       LET items == Listing(tr, path, filter, order)
       IN IF path \notin DOMAIN tr.folderTree THEN items = <<>>
          ELSE /\ {items[k] : k \in 1..Len(items)}
                    = {tr.folderTree[q] : q \in
                         {c \in Children(tr.folderTree, path) :
                            Matches(c[Len(c)], filter)}}
               /\ \A a \in 1..Len(items) : \A b \in 1..Len(items) :
                    a < b =>
                      /\ items[a].IsFolder \/ ~items[b].IsFolder
                      /\ items[a].IsFolder = items[b].IsFolder
                           => Less(items[a].Name, items[b].Name)
  /\ (tr.sep = "/" /\ Len(tr.secrets) = 3
        /\ {tr.secrets[k] : k \in 1..3} = ExampleSecrets) =>
       \A order \in MapOrders :
         LET t == Rebuilt(tr, order)
             root == Listing(t, <<>>, <<>>, order)
             below == Listing(t, <<<<"a">>>>, <<>>, order)
         IN /\ Names(root) = << <<"a">>, <<"b">> >>
            /\ root[1].IsFolder /\ ~root[2].IsFolder
            /\ Names(below) = << <<"x">>, <<"y">> >>
            /\ ~below[1].IsFolder /\ ~below[2].IsFolder
            /\ Names(Listing(t, <<>>, <<"b">>, order)) = << <<"b">> >>

\* C28 witness: the three secrets of the example are loaded and the root is
\* listed with a filter in the other case, which leaves b alone.
C28_Witness ==
  /\ tr.sep = "/"
  /\ {tr.secrets[k] : k \in 1..Len(tr.secrets)} = ExampleSecrets
  /\ tr.currentPath = <<>>
  /\ tr.filterText = <<"B">>
  /\ Names(tr.displayItems) = << <<"b">> >>

\* ---- C29
\* m.secrets is assigned by a successful list response and nowhere else: it
\* is the most recent successful response.
TreeIsCurrent == tr.folderTree = buildFolderTree(tr.secrets, tr.sep)

ItemsAreCurrent ==
  \A order \in MapOrders :
    tr.displayItems = Listing(tr, tr.currentPath, tr.filterText, order)

\* C29: in every reachable state the folder tree is the tree built from the
\* most recent successful list response with the configured separator, and
\* the displayed items are the listing of that tree at the current path with
\* the current filter.
C29_TreeAndItemsCurrent == TreeIsCurrent /\ ItemsAreCurrent

\* ---- C30
\* The keystrokes that quit.
QuitKeys == {"q", "ctrl+c"}

QuitOnlyByQuitKey ==
  \A msg \in AllMsgs :
    Update(m, msg).halt = "quit" => (msg.type = "KeyMsg" /\ msg.key \in QuitKeys)

\* C30: no sequence of key, timer and completion messages stops the program
\* with a fault of the message handler, and the handler quits only on a quit
\* keystroke.
C30_NoFaultAndQuitOnlyByKey ==
  /\ halted # "panic"
  /\ QuitOnlyByQuitKey

\* ---- C31
\* C31: in the list view the cursor lies inside the visible window: scroll
\* offset <= cursor < scroll offset + visible height, after every key, list
\* response, filter change and window size.
C31_CursorInsideWindow ==
  sc.view = "ViewList" =>
    /\ sc.listOffset <= sc.cursor
    /\ sc.cursor < sc.listOffset + visibleHeight(sc)

\* ---- C32
\* C32: in every reachable state, whatever the view and the selected secret,
\* a successful versions-loaded completion replaces the versions list with
\* the one it carries, and a successful value-access completion stores the
\* value and shows the reveal view; neither looks at or changes the selected
\* secret.
C32_CompletionsAppliedUnconditionally ==
  /\ \A msg \in MsgsOf("loadVersions") :
       ~msg.err =>
         LET r == Update(m, msg)
         IN /\ r.m.versions = msg.n
            /\ r.m.view = m.view
            /\ r.m.selectedSecret = m.selectedSecret
  /\ \A msg \in MsgsOf("accessSecretVersion") :
       ~msg.err =>
         LET r == Update(m, msg)
         IN /\ r.m.revealedValue = Some(msg.value)
            /\ r.m.view = "ViewReveal"
            /\ r.m.selectedSecret = m.selectedSecret

\* C32 witness: the versions of a secret are being loaded while the
\* project-switch view is on screen, and the completion still replaces the
\* list.
C32_Witness ==
  /\ halted = "run"
  /\ pending["loadVersions"] > 0
  /\ m.view = "ViewProjectSwitch"
  /\ m.versions # MaxVersions
  /\ Update(m, [Msg("versionsLoadedMsg") EXCEPT !.n = MaxVersions]).m.versions
       = MaxVersions

\* ---- C33
\* C33: in every state where a cleanup pass is due, the pass removes nothing
\* but rotated files of this log: the active file stays, and so does every
\* other entry of the log directory, also one whose name begins with the
\* base name of the log.
C33_SweepRemovesRotatedFilesOnly ==
  au.sweeps > 0 =>
    \A unreadable \in BOOLEAN :
      LET r == Logger_cleanupOldLogs(au, unreadable, {})
      IN /\ r.active = au.active
         /\ r.file = au.file
         /\ DOMAIN r.rotated \subseteq DOMAIN au.rotated
         /\ r.others = au.others

\* ---- C34
\* C34: in every reachable state where the session is locked, the view is
\* the locked view and no revealed value is held.
C34_LockedStateSealed ==
  m.sessionLocked => (m.view = "ViewLocked" /\ m.revealedValue = None)


\* C35: a clipboard-clear completion of an earlier deadline never cancels
\* the protection of a later copy: while a clear completion is in flight and
\* the timer runs towards a deadline that has not passed (so a copy was
\* handled after the clear task was emitted), handling that completion
\* leaves the timer active.
C35_StaleClearKeepsLaterTimer ==
  (/\ pending["clipboardClearMsg"] > 0
   /\ m.clipboardActive
   /\ now < m.clipboardClearAt) =>
    Update(m, Msg("clipboardClearMsg")).m.clipboardActive


\* The tasks that call the remote service.
RemoteTasks ==
  {"initializeClient", "loadSecrets", "loadVersions", "accessSecretVersion",
   "createSecret", "deleteSecret", "addVersion", "copySecretValue"}

EmitsRemoteTask(r) == \E k \in RemoteTasks : CountOf(r.cmds, k) > 0

\* A remote task is in flight only with the loading flag set.
LoadingWhileInFlight == (\E k \in RemoteTasks : pending[k] > 0) => m.loading

\* With the loading flag set no key emits a remote task.
NoSubmissionWhileLoading ==
  m.loading => \A msg \in UserMsgs : ~EmitsRemoteTask(Update(m, msg))

\* While a create, add-version or delete task is in flight no key emits the
\* same task again.
FormNotSubmittedTwice ==
  \A k \in {"createSecret", "addVersion", "deleteSecret"} :
    pending[k] > 0 => \A msg \in UserMsgs : CountOf(Update(m, msg).cmds, k) = 0

\* C36: while a remote operation is in flight the loading flag is set, and
\* while the loading flag is set no key input in any view emits another
\* remote task, so a form cannot be submitted twice before its completion
\* is handled.
C36_NoSecondSubmission ==
  /\ LoadingWhileInFlight
  /\ NoSubmissionWhileLoading
  /\ FormNotSubmittedTwice


\* The views that act on the selected secret.
SecretViews == {"ViewDetail", "ViewAddVersion", "ViewDelete", "ViewGenerate"}

\* C37: in every reachable state where the active view is the detail,
\* add-version, delete-confirmation or generate-code view, a selected
\* secret is present.
C37_SelectedSecretPresent ==
  m.view \in SecretViews => m.selectedSecret # None


\* C38: in every reachable state with a non-empty versions list the version
\* cursor is a valid index into it, also after a versions-loaded completion
\* replaces the list with a shorter one.
C38_VersionCursorValid ==
  vs.versions > 0 => (0 <= vs.versionCursor /\ vs.versionCursor < vs.versions)


\* C39: in every reachable state with a non-empty displayed-items list the
\* list cursor is a valid index into it, after any sequence of navigation,
\* filtering, reload and project switch.
CursorValid(t) ==
  Len(t.displayItems) > 0 => (0 <= t.cursor /\ t.cursor < Len(t.displayItems))

\* The keys of the list view, with the ones that jump to an end of the list.
ListKeys == TreeKeys \cup {"g", "G", "k", "j", "l", "h", "backspace"}

C39_ListCursorValid ==
  /\ CursorValid(tr)
  /\ \A key \in ListKeys : \A inp \in TreeInputs(tr, key) : \A order \in MapOrders :
       CursorValid(browseKey(tr, key, inp, order))

\* C39: the cursor is past the first item in the filter view, and the next
\* change of the filter text leaves a shorter, non-empty list and pulls the
\* cursor back into it.
C39_Witness ==
  /\ tr.view = "ViewFilter"
  /\ tr.cursor > 0
  /\ \E f \in FilterTexts : \E order \in MapOrders :
       LET t2 == browseKey(tr, "x", [filter |-> f, sep |-> "", sel |-> "none"], order)
       IN /\ Len(t2.displayItems) > 0
          /\ Len(t2.displayItems) <= tr.cursor
          /\ t2.cursor = Len(t2.displayItems) - 1


\* ---- C40
\* Secret i can be opened from the list view of the tree: a leaf references
\* it, and every node above that leaf is a folder, which enter descends into.
Openable(tree, i) ==
  \E q \in Leaves(tree) :
    /\ tree[q].Secret = Some(i)
    /\ \A k \in 1..(Len(q) - 1) : tree[SubSeq(q, 1, k)].IsFolder

\* The identifier ends in a non-empty segment.
HasFinalSegment(name, sep) ==
  LET parts == Split(name, sep) IN parts[Len(parts)] # <<>>

\* C40: every secret of the most recent list response whose identifier has
\* a non-empty final segment can be opened from the list view: the tree
\* built from the response holds a leaf referencing it, and every node on the
\* path from the root to that leaf is a folder.
C40_EverySecretOpenable ==
  LET tree == buildFolderTree(tr.secrets, tr.sep)
  IN \A i \in 1..Len(tr.secrets) :
       HasFinalSegment(tr.secrets[i], tr.sep) => Openable(tree, i)

====
